---------------------------- MODULE Spec2Model ----------------------------
(***************************************************************************)
(* Model of the decode pipeline of BlackCat (blackcat/data_processing.py). *)
(*                                                                         *)
(* Part 1: unpack_dlm_data, the decoder of the 32-bit DLM word stream.     *)
(* Part 2: decode_usb_tdc, the decoder of the 40-bit USB word stream.      *)
(* Part 3: average_dlm_data, the means per channel of a decoded stream.    *)
(* Part 4: average_usb_tdc_data, the means of the decoded USB lines.       *)
(* Part 5: process_raw_cal and load_calibration_file, the fine-time table. *)
(* Part 6: UDPListener and USBReader (blackcat/utils.py), the capture       *)
(*         threads, and the calls of blackcat/core.py that drive them.     *)
(*                                                                         *)
(* Numbers.  The code computes times as IEEE doubles in ns.  The model     *)
(* uses exact integer arithmetic on a grid of 1/17 ns ("ticks"): with      *)
(* TDC_FREQ = 340 one coarse count is 1000/340 ns = 50 ticks, the DLM      *)
(* epoch unit 4096*1000/340 ns is 204800 ticks and the USB epoch unit      *)
(* 262144*200000/1000 ns is 891289600 ticks.  The entries of the fine-time *)
(* table (ps in the file, divided by 1000 in process_hit) are modelled on  *)
(* the same grid.  Floating-point rounding is not modelled.                *)
(*                                                                         *)
(* A 32-bit word is the record [msb, low]: msb is bit 31, low holds bits   *)
(* 0..30, so that every field extraction of the code is an integer         *)
(* division or remainder on low.                                           *)
(***************************************************************************)
EXTENDS Integers, Sequences, FiniteSets, TLC

(***************************************************************************)
(* Bounds of the model                                                     *)
(***************************************************************************)
\* longest word stream that is read
MaxWords == 7

(***************************************************************************)
(* Module constants, data_processing.py lines 19-27                        *)
(***************************************************************************)
TDC_FREQ == 340
\* ticks per ns: 1000/TDC_FREQ ns = 50/17 ns
TicksPerNs == TDC_FREQ \div 20
\* one coarse count, coarse = ct * 1000.0 / TDC_FREQ, in ticks
CoarseTicks == 1000 \div 20
BLOCK_RAM_SIZE == 512
\* line 26, in ps
COARSE_UNIT == 200000
\* line 22: EPOC_UNIT = 4096.0 * 1000.0 / TDC_FREQ (ns), in ticks
EPOC_UNIT_BLACKCAT == 4096 * CoarseTicks
\* line 27: EPOC_UNIT = (262144 * COARSE_UNIT) / 1000.0 (ns), in ticks
EPOC_UNIT_USB == 262144 * (COARSE_UNIT \div 1000) * TicksPerNs
\* The module binds the name EPOC_UNIT twice; process_epoch and the unwrap of
\* unpack_dlm_data look the global up when they run, after line 27 rebound it.
EPOC_UNIT == EPOC_UNIT_USB

(***************************************************************************)
(* Words                                                                   *)
(***************************************************************************)
Word(msb, low) == [msb |-> msb, low |-> low]
\* a word with bit 31 set and the hit fields of process_hit
HitWord(ch, ct, b21, ft) ==
    Word(1, ch * (2^22) + b21 * (2^21) + ft * (2^12) + ct)
\* a word with bit 31 clear; junk are bits 28..30, which the decoder masks
EpochWord(junk, e) == Word(0, junk * (2^28) + e)

\* dataword & 0x80000000
IsHit(dataword) == dataword.msb = 1


(***************************************************************************)
(* Inputs: the words a capture may hold, the nominal periods, the tables   *)
(***************************************************************************)
\* channel 2, coarse count 10, fine index 0
HitA == HitWord(2, 10, 0, 0)
\* channel 2, an earlier time: coarse count 5 with the LSB bit, fine index 300
HitB == HitWord(2, 5, 1, 300)
\* channel 3, with the unused bits 11, 29 and 30 set
HitC == Word(1, HitWord(3, 10, 0, 0).low + 2^30 + 2^29 + 2^11)
Epoch0 == EpochWord(0, 0)
Epoch1 == EpochWord(0, 1)
\* the largest epoch value, with bits 28..30 set as well
EpochMax == EpochWord(7, 2^28 - 1)
\* an epoch word whose bits 22..28 read as channel 2 and bits 0..10 as 10
EpochLikeHitA == EpochWord(0, 2 * (2^22) + 10)

Words == {HitA, HitB, HitC, Epoch0, Epoch1, EpochMax, EpochLikeHitA}

\* period: the default of unpack_dlm_data (ns), and one USB epoch unit (ns)
Periods == {10000000, 262144 * 200}

\* The calibration tables a call may load, by name: "zero" is the degenerate
\* all-zero table of an empty calibration dump, "uniform" the table of a
\* uniform histogram.
LutTables == {"zero", "uniform"}

\* BIN_CENTER[i] of a table, on the tick grid; for the uniform histogram
\* bin_center[i] = (i + 0.5) * FT_UNIT / 512 with FT_UNIT = 1000000/340 ps
BinCenter(table, i) ==
    IF table = "zero"
    THEN 0
    ELSE (CoarseTicks * (2 * i + 1)) \div (2 * BLOCK_RAM_SIZE)

(***************************************************************************)
(* State of one call of unpack_dlm_data                                    *)
(***************************************************************************)
VARIABLES
    outfile,        \* the argument: "path" or "None"
    dlm_period,     \* float(period), ns
    lut_ft,         \* calibration_data["BIN_CENTER"].values: the table loaded
    pc,             \* position of the call, see below
    raised,         \* the exception that left the call, or "none"
    epoc_raw,       \* last epoch value
    first_hit,      \* the flag of process_epoch
    epoc_diff,      \* last epoch difference, as a count of EPOC_UNIT
    mode,           \* local of the loop body
    ch_a, hit_a,    \* first hit of the pair
    fout,           \* lines written to the output file
    stdout,         \* lines printed
    data_bytes,     \* read_longwords: len(data_bytes) of the last file.read(4)
    n_read,         \* history: number of words read from the stream
    n_epochs,       \* history: number of calls of process_epoch
    pair,           \* history: the pair being read, see NoPair
    ep,             \* history: arguments of the last call of process_epoch
    log             \* history: one entry per emitted line

\* State of one call of decode_usb_tdc (Part 2)
VARIABLES
    usb,            \* the locals of the call, see UsbStart
    fin,            \* the capture file and the position in it, see UsbFile
    ref,            \* history: the locals of a call that reads the same words
                    \* behind the magic token, see UsbRef
    grp             \* history: the hits since the last hit outside the
                    \* in-block window, see NoGroup

\* State of one call of average_dlm_data, of average_usb_tdc_data, and of
\* process_raw_cal followed by load_calibration_file (Part 3)
VARIABLES
    avg,            \* the locals of average_dlm_data, see AvgStart
    uavg,           \* the locals of average_usb_tdc_data, see UavgStart
    cal             \* the calibration dump, the table and the table file,
                    \* see CalStart

\* State of the capture threads and of the thread that drives them (Part 6)
VARIABLES
    cap             \* the listeners, the USB reader and the position of the
                    \* driving thread, see CapStart

usb_vars == <<usb, fin, ref, grp>>

aux_vars == <<avg, uavg, cal, cap>>

dlm_vars == <<outfile, dlm_period, lut_ft, pc, raised, epoc_raw, first_hit,
              epoc_diff, mode, ch_a, hit_a, fout, stdout, data_bytes, n_read,
              n_epochs, pair, ep, log>>

vars == <<outfile, dlm_period, lut_ft, pc, raised, epoc_raw, first_hit,
          epoc_diff, mode, ch_a, hit_a, fout, stdout, data_bytes, n_read,
          n_epochs, pair, ep, log, usb, fin, ref, grp, avg, uavg, cal,
          cap>>

\* pc: "open"    before the with statement (line 353)
\*     "loop"    at the for statement, reading the next word (line 360)
\*     "hit1"    at the first next(longwords) (line 387)
\*     "hit2"    at the second next(longwords) (line 394)
\*     "refetch" at the next(longwords) after an epoch at "hit2" (line 400)
\*     "done"    the call returned
\*     "raised"  the call raised

\* pair, the history of the pair being read:
\*   stage   "none", "open" (an epoch was classified), "first" (the first hit
\*           was decoded), "broken" (no hit at the first-hit position),
\*           "resync" (an epoch at the second-hit position), "closed" (a line
\*           was emitted), "mixup" (the channels differ)
\*   opener  rank of the opening epoch among the epochs processed
\*   first   whether process_epoch was called with first_hit set
\*   base, epoc, d   epoc_raw before the opening epoch, its value, the count
\*   lines   number of lines emitted when the pair was opened
\*   w1, resync_word, w2   the words read at the positions of the pair
NoPair == [stage |-> "none", opener |-> 0, first |-> FALSE, base |-> 0,
           epoc |-> 0, d |-> 0, lines |-> 0, w1 |-> Epoch0,
           resync |-> FALSE, resync_word |-> Epoch0, w2 |-> Epoch0]

(***************************************************************************)
(* process_epoch and the mode classification                               *)
(***************************************************************************)
\* lines 214-216 without the correction of a negative difference
epoc_diff_int_nowrap(epoc, old) == epoc - old

\* lines 214-216: epoc - epoc_raw, plus 1 << 28 when negative
epoc_diff_int(epoc, old) ==
    IF epoc - old < 0 THEN epoc - old + 2^28 ELSE epoc - old

\* process_epoch returning the epoch it was given instead of the new one
process_epoch_keep(dataword, old, first) ==
    IF first
    THEN [epoc_raw |-> dataword.low % (2^28), epoc_diff |-> 0,
          first_hit |-> FALSE]
    ELSE [epoc_raw |-> old,
          epoc_diff |-> epoc_diff_int(dataword.low % (2^28), old),
          first_hit |-> first]

\* lines 209-219.  The returned epoc_diff is epoc_diff_int * EPOC_UNIT; the
\* model keeps the integer factor and applies EPOC_UNIT where the value is
\* compared (Above).
process_epoch(dataword, old, first) ==
    LET epoc == dataword.low % (2^28)
    IN  IF first
        THEN [epoc_raw |-> epoc, epoc_diff |-> 0, first_hit |-> FALSE]
        ELSE [epoc_raw |-> epoc, epoc_diff |-> epoc_diff_int(epoc, old),
              first_hit |-> first]

\* floor(p * n / m) without leaving 32 bits
ScaleFloor(p, n, m) == (p \div m) * n + ((p % m) * n) \div m

\* count * unit > (kn/kd) * period, with unit in ticks and period in ns.
\* count * unit is an integer, so it exceeds the bound iff it exceeds the
\* bound's floor, iff count exceeds floor(bound) \div unit.
Above(unit, count, kn, kd, period) ==
    count > ScaleFloor(period, TicksPerNs * kn, kd) \div unit

\* lines 375-384 for an epoch difference of count * unit
ClassifyWith(unit, count, period) ==
    IF Above(unit, count, 19, 20, period) /\ ~Above(unit, count, 21, 20, period)
    THEN 0
    ELSE IF    Above(unit, count, 19, 10, period)
            /\ ~Above(unit, count, 21, 10, period)
         THEN 1
         ELSE -1

\* the classification of unpack_dlm_data: epoc_diff = count * EPOC_UNIT
Classify(count, period) == ClassifyWith(EPOC_UNIT, count, period)

(***************************************************************************)
(* process_hit and the emitted line                                        *)
(***************************************************************************)
\* lines 228-238; corrected_time in ticks
process_hit(dataword, lut) ==
    LET ch == (dataword.low \div (2^22)) % 128
        ct == (dataword.low % 2048) * 2 + ((dataword.low \div (2^21)) % 2)
        ft == (dataword.low \div (2^12)) % 512
    IN  [ch |-> ch, time |-> ct * CoarseTicks - BinCenter(lut, ft)]

\* the comparison of line 404 left out
SameChannel_unchecked(a, b) == TRUE

\* line 404
SameChannel(a, b) == a = b

\* lines 406-407 with the unit named
UnwrapWith(unit, delta_t) == IF delta_t < 0 THEN delta_t + unit ELSE delta_t

\* lines 405-407: delta_t = hit_b - hit_a, plus EPOC_UNIT when negative
Unwrap(delta_t) == UnwrapWith(EPOC_UNIT, delta_t)

\* line 408, f"{ch_a:2} {delta_t:11.5f} {mode}": the sign, the whole ns and
\* the five decimals of delta_t (ticks are 1/17 ns, so no rounding tie occurs)
OutputLine(ch, delta_t, m) ==
    LET a == IF delta_t < 0 THEN -delta_t ELSE delta_t
    IN  [ch |-> ch, neg |-> delta_t < 0, ns |-> a \div TicksPerNs,
         frac |-> (2 * (a % TicksPerNs) * 100000 + TicksPerNs)
                      \div (2 * TicksPerNs),
         mode |-> m]

\* StopIteration left to propagate
OnStopIteration_propagate == "raised"

\* lines 416-418: the except clause swallows StopIteration, the call returns
OnStopIteration == "done"

(***************************************************************************)
(* The call: one action per read of the word stream                        *)
(***************************************************************************)
InitDlm ==
    /\ outfile \in {"path", "None"}
    /\ dlm_period \in Periods
    /\ lut_ft \in LutTables
    /\ pc = "open"
    /\ raised = "none"
    /\ epoc_raw = 0
    /\ first_hit = TRUE
    /\ epoc_diff = 0
    /\ mode = 0
    /\ ch_a = 0
    /\ hit_a = 0
    /\ fout = << >>
    /\ stdout = << >>
    /\ data_bytes = 4
    /\ n_read = 0
    /\ n_epochs = 0
    /\ pair = NoPair
    /\ ep = [old |-> 0, word |-> Epoch0, first |-> FALSE]
    /\ log = << >>
    \* decode_usb_tdc is not called
    /\ usb = << >>
    /\ fin = << >>
    /\ ref = << >>
    /\ grp = << >>
    /\ avg = << >>
    /\ uavg = << >>
    /\ cal = << >>
    /\ cap = << >>

\* lines 353-357: the with statement enters open(infile) and then the value
\* of `open(outfile, "w") if outfile else None`; None is no context manager
Open ==
    /\ pc = "open"
    /\ IF outfile = "None"
       THEN pc' = "raised" /\ raised' = "TypeError"
       ELSE pc' = "loop" /\ raised' = raised
    /\ UNCHANGED <<usb_vars, aux_vars, data_bytes>>
    /\ UNCHANGED <<outfile, dlm_period, lut_ft, epoc_raw, first_hit,
                   epoc_diff, mode, ch_a, hit_a, fout, stdout, n_read,
                   n_epochs, pair, ep, log>>

\* lines 360-365: a hit word where an epoch is expected is skipped
LoopHit ==
    /\ pc = "loop"
    /\ n_read < MaxWords
    /\ \E dataword \in Words :
          /\ IsHit(dataword)
          /\ n_read' = n_read + 1
    /\ UNCHANGED <<usb_vars, aux_vars, data_bytes>>
    /\ UNCHANGED <<outfile, dlm_period, lut_ft, pc, raised, epoc_raw,
                   first_hit, epoc_diff, mode, ch_a, hit_a, fout, stdout,
                   n_epochs, pair, ep, log>>

\* lines 367-384: an epoch word at the for statement
LoopEpoch ==
    /\ pc = "loop"
    /\ n_read < MaxWords
    /\ \E dataword \in Words :
          /\ ~IsHit(dataword)
          /\ LET r == process_epoch(dataword, epoc_raw, first_hit)
             IN  /\ epoc_raw' = r.epoc_raw
                 /\ epoc_diff' = r.epoc_diff
                 /\ first_hit' = r.first_hit
                 /\ IF r.first_hit
                    THEN /\ pc' = "loop"
                         /\ UNCHANGED <<mode, pair>>
                    ELSE /\ mode' = Classify(r.epoc_diff, dlm_period)
                         /\ pc' = "hit1"
                         /\ pair' = [NoPair EXCEPT !.stage = "open",
                                                   !.opener = n_epochs + 1,
                                                   !.first = first_hit,
                                                   !.base = epoc_raw,
                                                   !.epoc = r.epoc_raw,
                                                   !.d = r.epoc_diff,
                                                   !.lines = Len(log)]
          /\ ep' = [old |-> epoc_raw, word |-> dataword, first |-> first_hit]
    /\ n_read' = n_read + 1
    /\ n_epochs' = n_epochs + 1
    /\ UNCHANGED <<usb_vars, aux_vars, data_bytes>>
    /\ UNCHANGED <<outfile, dlm_period, lut_ft, raised, ch_a, hit_a, fout,
                   stdout, log>>

\* the test of line 388 left out
FirstWordIsHit_unchecked(dataword) == TRUE

\* line 388, the test of the word read at the first-hit position
FirstWordIsHit(dataword) == IsHit(dataword)

\* lines 386-391: the first hit of the pair
FirstHit ==
    /\ pc = "hit1"
    /\ n_read < MaxWords
    /\ \E dataword \in Words :
          IF ~FirstWordIsHit(dataword)
          THEN /\ pc' = "raised"
               /\ raised' = "ValueError: Wrong structure: EPOC found"
               /\ pair' = [pair EXCEPT !.stage = "broken", !.w1 = dataword]
               /\ UNCHANGED <<ch_a, hit_a>>
          ELSE /\ ch_a' = process_hit(dataword, lut_ft).ch
               /\ hit_a' = process_hit(dataword, lut_ft).time
               /\ pair' = [pair EXCEPT !.stage = "first", !.w1 = dataword]
               /\ pc' = "hit2"
               /\ raised' = raised
    /\ n_read' = n_read + 1
    /\ UNCHANGED <<usb_vars, aux_vars, data_bytes>>
    /\ UNCHANGED <<outfile, dlm_period, lut_ft, epoc_raw, first_hit,
                   epoc_diff, mode, fout, stdout, n_epochs, ep, log>>

\* lines 402-414: the word taken as second hit closes the pair
ClosePair(dataword) ==
    LET b == process_hit(dataword, lut_ft)
        line == OutputLine(ch_a, Unwrap(b.time - hit_a), mode)
    IN  IF SameChannel(ch_a, b.ch)
        THEN /\ IF outfile # "None"
                THEN fout' = Append(fout, line) /\ stdout' = stdout
                ELSE stdout' = Append(stdout, line) /\ fout' = fout
             /\ pair' = [pair EXCEPT !.stage = "closed", !.w2 = dataword]
             /\ log' = Append(log, pair')
             /\ pc' = "loop"
             /\ raised' = raised
        ELSE /\ pc' = "raised"
             /\ raised' = "ValueError: Channel mixup detected"
             /\ pair' = [pair EXCEPT !.stage = "mixup", !.w2 = dataword]
             /\ UNCHANGED <<fout, stdout, log>>

\* lines 393-414: the word at the second-hit position
SecondHit ==
    /\ pc = "hit2"
    /\ n_read < MaxWords
    /\ \E dataword \in Words :
          IF ~IsHit(dataword)
          THEN LET r == process_epoch(dataword, epoc_raw, first_hit)
               IN  /\ epoc_raw' = r.epoc_raw
                   /\ epoc_diff' = r.epoc_diff
                   /\ first_hit' = r.first_hit
                   /\ n_epochs' = n_epochs + 1
                   /\ pair' = [pair EXCEPT !.stage = "resync",
                                           !.resync = TRUE,
                                           !.resync_word = dataword]
                   /\ ep' = [old |-> epoc_raw, word |-> dataword,
                             first |-> first_hit]
                   /\ pc' = "refetch"
                   /\ UNCHANGED <<raised, fout, stdout, log>>
          ELSE /\ ClosePair(dataword)
               /\ UNCHANGED <<epoc_raw, epoc_diff, first_hit, n_epochs, ep>>
    /\ n_read' = n_read + 1
    /\ UNCHANGED <<usb_vars, aux_vars, data_bytes>>
    /\ UNCHANGED <<outfile, dlm_period, lut_ft, mode, ch_a, hit_a>>

\* lines 400-414: the word after an epoch at the second-hit position is
\* handed to process_hit whatever its bit 31
Refetch ==
    /\ pc = "refetch"
    /\ n_read < MaxWords
    /\ \E dataword \in Words : ClosePair(dataword)
    /\ n_read' = n_read + 1
    /\ UNCHANGED <<usb_vars, aux_vars, data_bytes>>
    /\ UNCHANGED <<outfile, dlm_period, lut_ft, epoc_raw, first_hit,
                   epoc_diff, mode, ch_a, hit_a, n_epochs, ep>>

\* lines 152-155: file.read(4) returns fewer than 4 bytes, the generator
\* ends
ShortRead == 0 .. 3

\* line 360 with read_longwords (lines 152-155): the for statement ends
EndOfLoop ==
    /\ pc = "loop"
    /\ pc' = "done"
    /\ data_bytes' \in ShortRead
    /\ UNCHANGED <<usb_vars, aux_vars>>
    /\ UNCHANGED <<outfile, dlm_period, lut_ft, raised, epoc_raw, first_hit,
                   epoc_diff, mode, ch_a, hit_a, fout, stdout, n_read,
                   n_epochs, pair, ep, log>>

\* lines 387, 394, 400 with 416-418: next(longwords) raises StopIteration
StopIteration ==
    /\ pc \in {"hit1", "hit2", "refetch"}
    /\ pc' = OnStopIteration
    /\ data_bytes' \in ShortRead
    /\ raised' = IF OnStopIteration = "raised" THEN "StopIteration" ELSE raised
    /\ UNCHANGED <<usb_vars, aux_vars>>
    /\ UNCHANGED <<outfile, dlm_period, lut_ft, epoc_raw, first_hit,
                   epoc_diff, mode, ch_a, hit_a, fout, stdout, n_read,
                   n_epochs, pair, ep, log>>

NextDlm ==
    \/ Open
    \/ LoopHit
    \/ LoopEpoch
    \/ FirstHit
    \/ SecondHit
    \/ Refetch
    \/ EndOfLoop
    \/ StopIteration

SpecDlm == InitDlm /\ [][NextDlm]_vars

(***************************************************************************)
(* Properties of unpack_dlm_data                                           *)
(***************************************************************************)
\* the lines the call produced, wherever they went
Lines == fout \o stdout
Low28(w) == w.low % (2^28)
Chan(w) == process_hit(w, lut_ft).ch
Time(w) == process_hit(w, lut_ft).time
\* hit2.time - hit1.time of a logged pair
RawDelta(p) == Time(p.w2) - Time(p.w1)

\* C1: when the word taken as second hit carries another channel than the
\* first hit, the call raises the channel-mixup error, and the lines emitted
\* are those emitted before the pair was opened: none for the pair, none
\* after it.
C1_ChannelMixupAborts ==
    (pair.stage \in {"closed", "mixup"} /\ Chan(pair.w1) # Chan(pair.w2))
        => /\ pair.stage = "mixup"
           /\ pc = "raised"
           /\ raised = "ValueError: Channel mixup detected"
           /\ Len(Lines) = pair.lines

\* a mixup after an earlier pair was emitted
C1_Witness ==
    /\ pair.stage = "mixup"
    /\ pair.lines >= 1
    /\ Chan(pair.w1) # Chan(pair.w2)

\* C2: the first epoch of the stream only initialises the epoch state: it
\* opens no pair, and every emitted line belongs to a pair opened by a later
\* epoch, whose mode comes from the difference of two epochs.
C2_FirstEpochOpensNoPair ==
    /\ pair.stage # "none" => (~pair.first /\ pair.opener >= 2)
    /\ \A i \in DOMAIN log : ~log[i].first /\ log[i].opener >= 2

\* the line f"{ch:2} {delta_t:11.5f} {mode}" of a logged pair, for a given
\* epoch unit
LineWith(unit, p) ==
    OutputLine(Chan(p.w1), UnwrapWith(unit, RawDelta(p)),
               ClassifyWith(unit, p.d, dlm_period))

\* C3: the unit of the DLM decoder is 4096*1000/340 ns, in the conversion of
\* the epoch difference that is classified and in the unwrap of a negative
\* hit difference: every emitted line is the one computed with that unit.
C3_DlmEpochUnit ==
    \A i \in DOMAIN log : Lines[i] = LineWith(EPOC_UNIT_BLACKCAT, log[i])

\* diff_ns = diff_raw * 4096*1000/340 ns lies in (lo * P, hi * P], the
\* factors given in twentieths or tenths
InWindowNs(count, lo, hi, den) ==
    /\ Above(EPOC_UNIT_BLACKCAT, count, lo, den, dlm_period)
    /\ ~Above(EPOC_UNIT_BLACKCAT, count, hi, den, dlm_period)

\* C4: the mode of a line is 0 exactly when diff_ns is in (0.95P, 1.05P],
\* 1 exactly when it is in (1.9P, 2.1P] and -1 otherwise; the windows never
\* both match.
C4_ModeWindows ==
    \A i \in DOMAIN log :
        /\ Lines[i].mode = 0 <=> InWindowNs(log[i].d, 19, 21, 20)
        /\ Lines[i].mode = 1 <=> InWindowNs(log[i].d, 19, 21, 10)
        /\ Lines[i].mode = -1 <=>
               (~InWindowNs(log[i].d, 19, 21, 20)
                   /\ ~InWindowNs(log[i].d, 19, 21, 10))
        /\ ~(InWindowNs(log[i].d, 19, 21, 20)
                /\ InWindowNs(log[i].d, 19, 21, 10))

\* C5: when the word read at the first-hit position has bit 31 clear, the
\* call raises the structure error and emits nothing for that epoch nor
\* after it.
C5_EpochAtFirstHitAborts ==
    (pair.stage \notin {"none", "open"} /\ pair.w1.msb = 0)
        => /\ pair.stage = "broken"
           /\ pc = "raised"
           /\ raised = "ValueError: Wrong structure: EPOC found"
           /\ Len(Lines) = pair.lines

\* an epoch word at the first-hit position after an emitted pair
C5_Witness ==
    /\ pair.stage = "broken"
    /\ pair.w1.msb = 0
    /\ pair.lines >= 1

\* C6: an epoch word at the second-hit position is processed as an epoch
\* (epoc_raw becomes its 28-bit value and the next epoch difference is
\* measured from it), the following word is taken as the second hit, and
\* the pair still yields exactly one line, with the mode classified from the
\* epoch that opened the pair.
C6_EpochInsidePair ==
    /\ pair.resync => epoc_raw = Low28(pair.resync_word)
    /\ (pair.resync /\ pair.stage = "closed") => Len(Lines) = pair.lines + 1
    /\ \A i \in DOMAIN log :
          log[i].resync =>
             /\ log[i].lines = i - 1
             /\ Lines[i] = OutputLine(Chan(log[i].w1),
                                      Unwrap(RawDelta(log[i])),
                                      Classify(log[i].d, dlm_period))
             /\ (i + 1) \in DOMAIN log =>
                   /\ log[i + 1].base = Low28(log[i].resync_word)
                   /\ log[i + 1].d =
                         (log[i + 1].epoc - Low28(log[i].resync_word)) % (2^28)

\* a pair classified mode 0 by its opening epoch, closed after an epoch at
\* the second-hit position that would have classified otherwise
C6_Witness ==
    /\ pair.stage = "closed"
    /\ pair.resync
    /\ Len(Lines) = 2
    /\ Lines[2].mode = 0
    /\ Classify(epoc_diff, dlm_period) = -1

\* channel, coarse count, coarse LSB and fine index of a word (section 3 of
\* the specification: bits 22-28, 0-10, 21, 12-20)
HitFields(w) ==
    << (w.low \div (2^22)) % 128, w.low % 2048, (w.low \div (2^21)) % 2,
       (w.low \div (2^12)) % 512 >>

\* C7: delta_t of every line is hit2.time - hit1.time, plus 4096*1000/340 ns
\* once when that difference is negative; it is never negative, and it is 0
\* when the two hit words agree in channel, coarse count, coarse LSB and
\* fine index.
C7_DeltaT ==
    \A i \in DOMAIN log :
        LET raw == RawDelta(log[i])
            dt == IF raw < 0 THEN raw + EPOC_UNIT_BLACKCAT ELSE raw
            expected == OutputLine(Chan(log[i].w1), dt, Lines[i].mode)
            SameFields == HitFields(log[i].w1) = HitFields(log[i].w2)
        IN  /\ Lines[i] = expected
            /\ ~Lines[i].neg
            /\ SameFields => (Lines[i].ns = 0 /\ Lines[i].frac = 0)

\* C8: for an epoch e processed after the epoch last_epoch, the decoder's
\* diff_raw is (e - last_epoch) mod 2^28: e - last_epoch + 2^28 when
\* e < last_epoch, e - last_epoch otherwise, and within [0, 2^28).
C8_EpochDiffMod28 ==
    (n_epochs >= 1 /\ ~ep.first) =>
        LET e == Low28(ep.word)
        IN  /\ epoc_diff = (e - ep.old) % (2^28)
            /\ e < ep.old => epoc_diff = e - ep.old + 2^28
            /\ e >= ep.old => epoc_diff = e - ep.old
            /\ epoc_diff >= 0
            /\ epoc_diff < 2^28

\* an epoch smaller than the one before it
C8_Witness ==
    /\ n_epochs >= 2
    /\ ~ep.first
    /\ Low28(ep.word) < ep.old
    /\ epoc_diff = Low28(ep.word) - ep.old + 2^28

C10_StdoutWhenNoOutfile ==
    outfile = "None" =>
        /\ raised # "TypeError"
        /\ pc # "open" => (pc # "raised" \/ pair.stage \in {"broken", "mixup"})
        /\ Len(stdout) = Len(log)

\* C35: no epoch-tagged word (bit 31 clear) is decoded as a hit: every word
\* from which a channel and a corrected time were extracted, at the first
\* and at the second position of a pair, has bit 31 set, also when epoch
\* words follow one another inside the pair.  (Refuted: the word read
\* behind an epoch at the second-hit position is decoded unchecked.)
C35_OnlyHitWordsDecoded ==
    /\ pair.stage \in {"first", "resync", "closed", "mixup"} => IsHit(pair.w1)
    /\ pair.stage \in {"closed", "mixup"} => IsHit(pair.w2)

\* C32: a truncated final word (1 to 3 bytes left over) is told apart from
\* a clean end of the stream: a stream that ends on a word boundary ends
\* the decode normally, and a truncation in the middle of a structure
\* (behind the epoch of a pair, or between its two hits) is reported as an
\* error.  (Refuted: read_longwords ends on a short read as on an empty
\* one, and the decode returns normally.)
C32_TruncationMidStructureIsError ==
    /\ pc = "done" /\ data_bytes = 0 => raised = "none"
    /\ pc \in {"done", "raised"}
       /\ data_bytes \in 1 .. 3
       /\ pair.stage \in {"open", "first", "resync"}
       => pc = "raised"

(***************************************************************************)
(* Part 2: decode_usb_tdc, data_processing.py lines 543-728                *)
(*                                                                         *)
(* Numbers.  A 40-bit word is the tuple of its five bytes as fin.read(5)   *)
(* returns them, most significant first, so that the header sniff of four  *)
(* bytes and a read that straddles two words are what the code does.       *)
(* Times are whole ns: the captures of the model hold fine times that are  *)
(* whole multiples of 1000 ps, for which (coarse*COARSE_UNIT + fine)/1000  *)
(* and every difference of two times are exact in a double.  A temperature *)
(* is the integer the format {temp:8.4f} prints, in units of 0.0001.       *)
(***************************************************************************)
\* longest capture, in words
MaxUsbWords == 7

\* lines 28-35
MAX_TDC_CHANNEL == 4
TEMP_CHANNEL == 4
\* 0x9E
I2C_MAX31726 == 158
\* 0x92
I2C_LM75B == 146
\* I2C_LM75B_SCALE = 0.125, in units of 0.0001
I2C_LM75B_SCALE == 1250
I2C_LM75B_DIVISOR == 32
\* I2C_MAX31726_SCALE = 0.00390625 = 1/256: the divisor
I2C_MAX31726_DIV == 256
\* line 37: MESSAGE_OK = 0x4F4B0D0A, as the four bytes of fin.read(4)
MESSAGE_OK == <<79, 75, 13, 10>>
\* line 27: EPOC_UNIT in ns
EPOC_UNIT_NS == EPOC_UNIT \div TicksPerNs
\* the bound 11_000 of emit_time_differences (lines 584, 586), ns
TIME_DIFF_MAX == 11000
\* the temp of line 704, -66.6666
TEMP_SENTINEL == 0 - 666666

Abs(x) == IF x < 0 THEN 0 - x ELSE x

(***************************************************************************)
(* Words of the USB stream                                                 *)
(***************************************************************************)
\* the bytes of the hit word (ch << 36) | (coarse << 18) | fine
UsbHit(ch, coarse, fine) ==
    << ch * 16 + coarse \div (2^14),
       (coarse \div 64) % 256,
       (coarse % 64) * 4 + fine \div (2^16),
       (fine \div 256) % 256,
       fine % 256 >>
\* the bytes of a temperature word; nib are bits 32..35, which the decoder
\* does not read
UsbTemp(nib, addr, status, data) ==
    << TEMP_CHANNEL * 16 + nib, addr, status, data \div 256, data % 256 >>
\* a hit at a whole number of ns
UsbHitAt(ch, ns) ==
    UsbHit(ch, ns \div (COARSE_UNIT \div 1000),
           1000 * (ns % (COARSE_UNIT \div 1000)))

\* line 626: channel = (dataword >> 36) & 0xF
UsbChannel(w) == w[1] \div 16
\* line 630: coarse = (dataword >> 18) & 0x3FFFF
UsbCoarse(w) == (w[1] % 16) * (2^14) + w[2] * 64 + w[3] \div 4
\* line 631: fine = dataword & 0x3FFFF
UsbFine(w) == (w[3] % 4) * (2^16) + w[4] * 256 + w[5]
\* line 635: tdc_time = (coarse * COARSE_UNIT + fine) / 1000.0
UsbTime(w) == UsbCoarse(w) * (COARSE_UNIT \div 1000) + UsbFine(w) \div 1000
\* lines 701-703
I2cAddr(w) == w[2]
I2cStatus(w) == w[3]
I2cData(w) == w[4] * 256 + w[5]

\* line 632: if fine > COARSE_UNIT
InvalidFine(fine) == fine > COARSE_UNIT

(***************************************************************************)
(* Inputs of decode_usb_tdc                                                *)
(***************************************************************************)
\* dlm_period_ns of the calls of the model
UsbPeriod == 100000

\* The words a capture may hold, in the order the device sends them; a
\* capture is a subsequence of Script.  Times are relative to UsbPeriod and
\* to the two values of max_diff_ns, 10 and 12000.
\*   1      a temperature word whose first four bytes are those of MESSAGE_OK
\*   2      channel 3, one ns before the coarse counter wraps
\*   3,4    channels 0 and 1 at 0 and 3 ns
\*   5,6    MAX31726 reading 0x1901; a reading with I2C status 3
\*   7,8    channels 2 and 3 at 1 and 7 ns
\*   9,10   LM75B reading 0xFFFF; a reading of the unknown address 0x55
\*   11     channel 1 with fine = COARSE_UNIT + 1
\*   12     channel nibble 9
\*   13,14  channels 3 and 1 at 12000 and 12002 ns
\*   15-17  channel 0 at 1.05, 2 and 2.5 periods
\*   18     channel 1, coarse 1000, fine = COARSE_UNIT
Script ==
    << UsbTemp(15, 75, 13, 10 * 256 + 64),
       UsbHitAt(3, EPOC_UNIT_NS - 1),
       UsbHitAt(0, 0),
       UsbHitAt(1, 3),
       UsbTemp(0, I2C_MAX31726, 0, 6401),
       UsbTemp(0, I2C_MAX31726, 3, 1),
       UsbHitAt(2, 1),
       UsbHitAt(3, 7),
       UsbTemp(0, I2C_LM75B, 0, 65535),
       UsbTemp(0, 85, 0, 1),
       UsbHit(1, 0, COARSE_UNIT + 1),
       UsbHit(9, 0, 0),
       UsbHitAt(3, 12000),
       UsbHitAt(1, 12002),
       UsbHitAt(0, UsbPeriod + UsbPeriod \div 20),
       UsbHitAt(0, 2 * UsbPeriod),
       UsbHitAt(0, 2 * UsbPeriod + UsbPeriod \div 2),
       UsbHit(1, 1000, COARSE_UNIT) >>

\* the arguments dlm_period_ns, max_diff_ns, skip_events of a call and
\* whether the capture starts with the magic token
UsbCalls ==
    { [dlm_period_ns |-> UsbPeriod, max_diff_ns |-> 10, skip_events |-> 0,
       header |-> FALSE],
      [dlm_period_ns |-> UsbPeriod, max_diff_ns |-> 10, skip_events |-> 0,
       header |-> TRUE],
      [dlm_period_ns |-> UsbPeriod, max_diff_ns |-> 10, skip_events |-> 1,
       header |-> FALSE],
      [dlm_period_ns |-> UsbPeriod, max_diff_ns |-> 12000, skip_events |-> 0,
       header |-> FALSE] }

(***************************************************************************)
(* State of the call                                                       *)
(***************************************************************************)
UsbChannels == 0 .. (MAX_TDC_CHANNEL - 1)

\* usb, lines 612-619: the locals of the call
\*   pc        "open" before the header is read (line 607), "loop" at
\*             read_40bit_word (line 622), "done", "raised"
\*   raised    the message of the ValueError that left the call, or "none"
\*   out       the lines written by output(), in order
\*   dataword  the last word read
UsbStart(args) ==
    [ pc |-> "open", raised |-> "none",
      dlm_period |-> args.dlm_period_ns, dlm_diff |-> args.max_diff_ns,
      skip_events |-> args.skip_events,
      tdc_time_history |-> [c \in UsbChannels |-> 0],
      tdc_hit_count |-> [c \in UsbChannels |-> 0],
      tdc_counter |-> 0, old_tdc_time |-> 0, first_hit |-> TRUE,
      out |-> << >>, dataword |-> << >> ]

\* fin, the capture and the file position
\*   header  whether the capture starts with the magic token
\*   cursor  index in Script of the last word of the capture fixed so far
\*   n       number of words of the capture fixed so far
\*   W       the words of the capture fixed so far
\*   eof     whether the capture ends with the words fixed so far
\*   buf     the bytes of W behind the file position
UsbFile(header) ==
    [ header |-> header, cursor |-> 0, n |-> 0, W |-> << >>, eof |-> FALSE,
      buf |-> << >> ]

(***************************************************************************)
(* The hit branch, lines 629-697                                           *)
(***************************************************************************)
\* lines 637-647
time_diff(s, tdc_time) ==
    IF s.first_hit
    THEN 0 - 1
    ELSE LET d == tdc_time - s.old_tdc_time
         IN  IF d < 0
             THEN d + (IF Abs(d) > s.dlm_diff THEN EPOC_UNIT_NS ELSE 0)
             ELSE Abs(d)

\* lines 652-670: the branch a time difference takes
classify_hit(s, d) ==
    IF 10 * d <= 11 * s.dlm_diff THEN "in_block"
    ELSE IF 9 * s.dlm_period < 10 * d /\ 10 * d <= 11 * s.dlm_period
    THEN "mode0"
    ELSE IF 18 * s.dlm_period < 10 * d /\ 10 * d <= 22 * s.dlm_period
    THEN "mode1"
    ELSE IF 10 * d <= 9 * s.dlm_period THEN "spurious"
    ELSE "unknown"

\* variant of pair_diff that never unwraps
pair_diff_nounwrap(times, a, b) == times[a] - times[b]

\* lines 583-585: one difference, unwrapped once
pair_diff(times, a, b) ==
    LET diff == times[a] - times[b]
    IN  IF Abs(diff) > TIME_DIFF_MAX
        THEN (IF diff > 0 THEN diff - EPOC_UNIT_NS ELSE diff + EPOC_UNIT_NS)
        ELSE diff

\* lines 581-588: the loops at position (i, j); a token is <<i-1, j, diff>>
RECURSIVE pair_loop(_, _, _)
pair_loop(times, i, j) ==
    IF i = 0 THEN << >>
    ELSE IF j >= i - 1 THEN pair_loop(times, i - 1, 0)
    ELSE << <<i - 1, j, pair_diff(times, i - 1, j)>> >>
         \o pair_loop(times, i, j + 1)

\* the token "{i - 1}.{j} {abs(diff):11.5f}" of line 588
PairToken(t) == <<t[1], t[2], Abs(t[3])>>

\* lines 579-590: the line written, or the overflow raised at line 587
emit_time_differences(times, m) ==
    LET parts == pair_loop(times, MAX_TDC_CHANNEL, 0)
    IN  IF \E k \in 1 .. Len(parts) : Abs(parts[k][3]) > TIME_DIFF_MAX
        THEN [raised |-> "Time diff overflow", line |-> << >>]
        ELSE [raised |-> "none",
              line |-> [pairs |-> [k \in 1 .. Len(parts) |->
                                      PairToken(parts[k])],
                        mode |-> m]]

\* lines 592-599
emit_placeholder_block(m) ==
    LET parts == pair_loop([c \in UsbChannels |-> 0], MAX_TDC_CHANNEL, 0)
    IN  [pairs |-> [k \in 1 .. Len(parts) |-> PairToken(parts[k])],
         mode |-> m]

\* a recording that leaves tdc_counter as it is
record_hit_nocount(s, channel, tdc_time) ==
    [s EXCEPT !.tdc_hit_count[channel] = @ + 1,
              !.tdc_time_history[channel] = tdc_time]

\* lines 653-655: the hit is recorded in the block
record_hit(s, channel, tdc_time) ==
    [s EXCEPT !.tdc_hit_count[channel] = @ + 1,
              !.tdc_time_history[channel] = tdc_time,
              !.tdc_counter = @ + 1]

\* lines 672-687 with the test of line 673 as tdc_counter > MAX_TDC_CHANNEL
emit_block_gt(s, m) ==
    IF s.tdc_counter > MAX_TDC_CHANNEL
    THEN IF s.skip_events # 0
         THEN [s EXCEPT !.skip_events = @ - 1]
         ELSE IF \A c \in UsbChannels : s.tdc_hit_count[c] = 1
         THEN LET r == emit_time_differences(s.tdc_time_history, m)
              IN  IF r.raised # "none"
                  THEN [s EXCEPT !.pc = "raised", !.raised = r.raised]
                  ELSE [s EXCEPT !.out = Append(@, r.line)]
         ELSE [s EXCEPT !.out = Append(@, emit_placeholder_block(m))]
    ELSE [s EXCEPT !.out = Append(@, emit_placeholder_block(m))]

\* lines 672-687: the line of the block that a boundary hit closes
emit_block(s, m) ==
    IF s.tdc_counter = MAX_TDC_CHANNEL
    THEN IF s.skip_events # 0
         THEN [s EXCEPT !.skip_events = @ - 1]
         ELSE IF \A c \in UsbChannels : s.tdc_hit_count[c] = 1
         THEN LET r == emit_time_differences(s.tdc_time_history, m)
              IN  IF r.raised # "none"
                  THEN [s EXCEPT !.pc = "raised", !.raised = r.raised]
                  ELSE [s EXCEPT !.out = Append(@, r.line)]
         ELSE [s EXCEPT !.out = Append(@, emit_placeholder_block(m))]
    ELSE [s EXCEPT !.out = Append(@, emit_placeholder_block(m))]

\* lines 695-697 without the reset of lines 690-692
start_block_noreset(s, channel, tdc_time) == record_hit(s, channel, tdc_time)

\* lines 689-697: the block is reset and seeded with the boundary hit
start_block(s, channel, tdc_time) ==
    record_hit([s EXCEPT !.tdc_time_history = [c \in UsbChannels |-> 0],
                         !.tdc_hit_count = [c \in UsbChannels |-> 0],
                         !.tdc_counter = 0],
               channel, tdc_time)

\* a skipped hit that resets the block
skip_hit_reset(s) ==
    [s EXCEPT !.tdc_time_history = [c \in UsbChannels |-> 0],
              !.tdc_hit_count = [c \in UsbChannels |-> 0],
              !.tdc_counter = 0]

\* lines 665-670: the two `continue` of a hit outside every window
skip_hit(s) == s

\* lines 629-697: a word with channel < MAX_TDC_CHANNEL
decode_hit(s, w) ==
    LET channel == UsbChannel(w)
        tdc_time == UsbTime(w)
        branch == classify_hit(s, time_diff(s, tdc_time))
        \* lines 639 and 649
        s1 == [s EXCEPT !.first_hit = FALSE, !.old_tdc_time = tdc_time]
    IN  IF InvalidFine(UsbFine(w))
        THEN [s EXCEPT !.pc = "raised", !.raised = "Invalid fine time."]
        ELSE IF branch = "in_block" THEN record_hit(s1, channel, tdc_time)
        ELSE IF branch \in {"spurious", "unknown"} THEN skip_hit(s1)
        ELSE LET e == emit_block(s1, IF branch = "mode0" THEN 0 ELSE 1)
             IN  IF e.pc = "raised" THEN e
                 ELSE start_block(e, channel, tdc_time)

(***************************************************************************)
(* The temperature branch, lines 699-720                                   *)
(***************************************************************************)
\* f"{temp:8.4f}" of i2c_data * 0.00390625: the nearest multiple of 0.0001,
\* the even one of two equally near
Max31726Temp(i2c_data) ==
    LET n == i2c_data * (10000 \div 16)
        d == I2C_MAX31726_DIV \div 16
        q == n \div d
        r == n % d
    IN  IF 2 * r > d THEN q + 1
        ELSE IF 2 * r = d THEN q + (q % 2)
        ELSE q

\* lines 704-718: temp and label
temperature(w) ==
    IF I2cStatus(w) = 0
    THEN IF I2cAddr(w) = I2C_MAX31726
         THEN [temp |-> Max31726Temp(I2cData(w)), label |-> "MAX31726"]
         ELSE IF I2cAddr(w) = I2C_LM75B
         THEN [temp |-> (I2cData(w) \div I2C_LM75B_DIVISOR) * I2C_LM75B_SCALE,
               label |-> "LM75B"]
         ELSE [temp |-> TEMP_SENTINEL, label |-> "unknown I2C"]
    ELSE [temp |-> TEMP_SENTINEL, label |-> "error"]

\* a temperature branch that writes no line for a failed reading
decode_temperature_okonly(s, w) ==
    IF I2cStatus(w) = 0 THEN [s EXCEPT !.out = Append(@, temperature(w))]
    ELSE s

\* lines 700-720: the line is written whatever the status
decode_temperature(s, w) == [s EXCEPT !.out = Append(@, temperature(w))]

(***************************************************************************)
(* The loop body, lines 626-724                                            *)
(***************************************************************************)
\* a dispatch that takes every channel above 3 for a broken channel
dispatch_notemp(w) ==
    IF UsbChannel(w) < MAX_TDC_CHANNEL THEN "hit" ELSE "broken"

\* lines 629, 700, 723: the branch of a word
dispatch(w) ==
    IF UsbChannel(w) < MAX_TDC_CHANNEL THEN "hit"
    ELSE IF UsbChannel(w) = TEMP_CHANNEL THEN "temperature"
    ELSE IF UsbChannel(w) > MAX_TDC_CHANNEL THEN "broken"
    ELSE "none"

\* a loop body whose broken-channel error takes the written lines back
decode_word_rollback(s, w) ==
    LET s0 == [s EXCEPT !.dataword = w]
    IN  IF dispatch(w) = "hit" THEN decode_hit(s0, w)
        ELSE IF dispatch(w) = "temperature" THEN decode_temperature(s0, w)
        ELSE [s0 EXCEPT !.pc = "raised", !.raised = "Broken channel",
                        !.out = << >>]

\* lines 626-724: one pass of the loop body on the word w
decode_word(s, w) ==
    LET s0 == [s EXCEPT !.dataword = w]
    IN  IF dispatch(w) = "hit" THEN decode_hit(s0, w)
        ELSE IF dispatch(w) = "temperature" THEN decode_temperature(s0, w)
        ELSE IF dispatch(w) = "broken"
        THEN [s0 EXCEPT !.pc = "raised", !.raised = "Broken channel"]
        ELSE s0

(***************************************************************************)
(* The capture file                                                        *)
(***************************************************************************)
\* fin.read(k) where the file does not end: the bytes read, the file after
\* the read, and the word that the read fixes as the next of the capture
\* (none when the bytes behind the position suffice)
UsbReads(f, k) ==
    IF Len(f.buf) >= k
    THEN { [bytes |-> SubSeq(f.buf, 1, k),
            fin |-> [f EXCEPT !.buf = SubSeq(f.buf, k + 1, Len(f.buf))],
            new |-> << >>] }
    ELSE { [bytes |-> SubSeq(f.buf \o Script[j], 1, k),
            fin |-> [f EXCEPT !.buf = SubSeq(f.buf \o Script[j], k + 1,
                                             Len(f.buf) + 5),
                              !.cursor = j, !.n = @ + 1,
                              !.W = Append(@, Script[j])],
            new |-> << Script[j] >>] :
           j \in {i \in (f.cursor + 1) .. Len(Script) :
                     ~f.eof /\ f.n < MaxUsbWords} }

\* ref: the call on the capture made of the magic token and the words of W
UsbRef(args) == [UsbStart(args) EXCEPT !.pc = "loop"]

ref_step(r, new) ==
    IF new = << >> \/ r.pc # "loop" THEN r ELSE decode_word(r, new[1])

(***************************************************************************)
(* grp: the stream cut into groups of hits, each within the in-block       *)
(* window (line 652) of the hit before it                                  *)
(***************************************************************************)
\*   skip_arg  the argument skip_events of the call
\*   boundaries   number of hits classified mode 0 or 1 so far
\*   tdc_hit_count, tdc_time_history   the hits of the group, by channel
\*   skipped   whether the decoder skipped a hit of the group (lines 665-670)
\*   held      the times of the last group before this one that had one hit
\*             on each channel and no skipped hit, if no boundary hit
\*             (mode 0 or 1) came since; a sequence of length 0 or 1
NoGroup ==
    [ tdc_hit_count |-> [c \in UsbChannels |-> 0],
      tdc_time_history |-> [c \in UsbChannels |-> 0],
      skipped |-> FALSE, held |-> << >>, skip_arg |-> 0, boundaries |-> 0 ]

\* the complete block that waits for its line when the group g ends
PendingBlock(g) ==
    IF (\A c \in UsbChannels : g.tdc_hit_count[c] = 1) /\ ~g.skipped
    THEN << g.tdc_time_history >>
    ELSE g.held

group_step(g, s, w) ==
    IF dispatch(w) # "hit" \/ InvalidFine(UsbFine(w)) THEN g
    ELSE LET branch == classify_hit(s, time_diff(s, UsbTime(w)))
             alone == [g EXCEPT
                          !.tdc_hit_count = [NoGroup.tdc_hit_count EXCEPT
                                                ![UsbChannel(w)] = 1],
                          !.tdc_time_history =
                              [NoGroup.tdc_time_history EXCEPT
                                  ![UsbChannel(w)] = UsbTime(w)],
                          !.skipped = FALSE,
                          !.held = << >>]
         IN  IF branch = "in_block"
             THEN [g EXCEPT !.tdc_hit_count[UsbChannel(w)] = @ + 1,
                            !.tdc_time_history[UsbChannel(w)] = UsbTime(w)]
             ELSE IF branch \in {"spurious", "unknown"}
             THEN [alone EXCEPT !.skipped = TRUE, !.held = PendingBlock(g)]
             ELSE [alone EXCEPT !.boundaries = @ + 1]

(***************************************************************************)
(* The call: one action per branch of the loop body                        *)
(***************************************************************************)
\* unpack_dlm_data is not called
DlmIdle ==
    /\ outfile = "path"
    /\ dlm_period = 10000000
    /\ lut_ft = "zero"
    /\ pc = "open"
    /\ raised = "none"
    /\ epoc_raw = 0
    /\ first_hit = TRUE
    /\ epoc_diff = 0
    /\ mode = 0
    /\ ch_a = 0
    /\ hit_a = 0
    /\ fout = << >>
    /\ stdout = << >>
    /\ data_bytes = 4
    /\ n_read = 0
    /\ n_epochs = 0
    /\ pair = NoPair
    /\ ep = [old |-> 0, word |-> Epoch0, first |-> FALSE]
    /\ log = << >>

InitUsb ==
    /\ \E args \in UsbCalls :
          /\ usb = UsbStart(args)
          /\ ref = UsbRef(args)
          /\ fin = UsbFile(args.header)
          /\ grp = [NoGroup EXCEPT !.skip_arg = args.skip_events]
    /\ DlmIdle
    /\ avg = << >>
    /\ uavg = << >>
    /\ cal = << >>
    /\ cap = << >>

\* lines 607-609: header = fin.read(4); fin.seek(0) unless it is MESSAGE_OK
UsbOpen ==
    /\ usb.pc = "open"
    /\ usb' = [usb EXCEPT !.pc = "loop"]
    /\ IF fin.header
       THEN fin' = fin /\ ref' = ref
       ELSE \/ fin' = [fin EXCEPT !.eof = TRUE] /\ ref' = ref
            \/ \E r \in UsbReads(fin, 4) :
                  /\ fin' = IF r.bytes = MESSAGE_OK
                            THEN r.fin
                            ELSE [r.fin EXCEPT !.buf = r.new[1]]
                  /\ ref' = ref_step(ref, r.new)
    /\ grp' = grp
    /\ UNCHANGED <<dlm_vars, aux_vars>>

\* lines 622-626 and the loop body on the word read
UsbLoop(r) ==
    /\ usb' = decode_word(usb, r.bytes)
    /\ fin' = r.fin
    /\ ref' = ref_step(ref, r.new)
    /\ grp' = group_step(grp, usb, r.bytes)
    /\ UNCHANGED <<dlm_vars, aux_vars>>

\* lines 629-633
UsbInvalidFine ==
    /\ usb.pc = "loop"
    /\ \E r \in UsbReads(fin, 5) :
          /\ dispatch(r.bytes) = "hit"
          /\ InvalidFine(UsbFine(r.bytes))
          /\ UsbLoop(r)

\* lines 652-656
UsbHitInBlock ==
    /\ usb.pc = "loop"
    /\ \E r \in UsbReads(fin, 5) :
          /\ dispatch(r.bytes) = "hit"
          /\ ~InvalidFine(UsbFine(r.bytes))
          /\ classify_hit(usb, time_diff(usb, UsbTime(r.bytes))) = "in_block"
          /\ UsbLoop(r)

\* lines 665-670
UsbHitSkipped ==
    /\ usb.pc = "loop"
    /\ \E r \in UsbReads(fin, 5) :
          /\ dispatch(r.bytes) = "hit"
          /\ ~InvalidFine(UsbFine(r.bytes))
          /\ classify_hit(usb, time_diff(usb, UsbTime(r.bytes)))
                \in {"spurious", "unknown"}
          /\ UsbLoop(r)

\* lines 657-664 and 672-697
UsbHitBoundary ==
    /\ usb.pc = "loop"
    /\ \E r \in UsbReads(fin, 5) :
          /\ dispatch(r.bytes) = "hit"
          /\ ~InvalidFine(UsbFine(r.bytes))
          /\ classify_hit(usb, time_diff(usb, UsbTime(r.bytes)))
                \in {"mode0", "mode1"}
          /\ UsbLoop(r)

\* lines 700-720
UsbTemperature ==
    /\ usb.pc = "loop"
    /\ \E r \in UsbReads(fin, 5) :
          /\ dispatch(r.bytes) = "temperature"
          /\ UsbLoop(r)

\* lines 723-724
UsbBrokenChannel ==
    /\ usb.pc = "loop"
    /\ \E r \in UsbReads(fin, 5) :
          /\ dispatch(r.bytes) = "broken"
          /\ UsbLoop(r)

\* an end of the stream that writes a line for the block it holds
UsbEndOfStream_flush ==
    /\ usb.pc = "loop"
    /\ Len(fin.buf) < 5
    /\ usb' = IF usb.tdc_counter > 0
              THEN [usb EXCEPT !.pc = "done",
                               !.out = Append(@, emit_placeholder_block(0))]
              ELSE [usb EXCEPT !.pc = "done"]
    /\ fin' = [fin EXCEPT !.eof = TRUE]
    /\ UNCHANGED <<ref, grp>>
    /\ UNCHANGED <<dlm_vars, aux_vars>>

\* lines 570-574 and 623-624: fewer than five bytes are left
UsbEndOfStream ==
    /\ usb.pc = "loop"
    /\ Len(fin.buf) < 5
    /\ usb' = [usb EXCEPT !.pc = "done"]
    /\ fin' = [fin EXCEPT !.eof = TRUE]
    /\ UNCHANGED <<ref, grp>>
    /\ UNCHANGED <<dlm_vars, aux_vars>>

NextUsb ==
    \/ UsbOpen
    \/ UsbInvalidFine
    \/ UsbHitInBlock
    \/ UsbHitSkipped
    \/ UsbHitBoundary
    \/ UsbTemperature
    \/ UsbBrokenChannel
    \/ UsbEndOfStream

SpecUsb == InitUsb /\ [][NextUsb]_vars

(***************************************************************************)
(* A run of either decoder: one call of unpack_dlm_data or one call of     *)
(* decode_usb_tdc                                                          *)
(***************************************************************************)
InitDecoders == InitDlm \/ InitUsb

NextDecoders ==
    \/ usb = << >> /\ NextDlm
    \/ usb # << >> /\ NextUsb

SpecDecoders == InitDecoders /\ [][NextDecoders]_vars

(***************************************************************************)
(* Properties of decode_usb_tdc                                            *)
(***************************************************************************)
\* the branch that the loop body takes on the hit word w in the state s
BranchOf(s, w) == classify_hit(s, time_diff(s, UsbTime(w)))

\* the step is a pass of the loop body on the word w
ReadsWord(w) ==
    /\ usb.pc = "loop"
    /\ usb'.pc # "done"
    /\ usb'.dataword = w

\* the step is a pass of the loop body on the hit word w, its fine time valid
ReadsHit(w) ==
    /\ ReadsWord(w)
    /\ dispatch(w) = "hit"
    /\ ~InvalidFine(UsbFine(w))

\* the capture so far is four hits on four channels, all taken as in-block
\* hits, read by a call with skip_events = 0
FourHitsRead ==
    /\ usb.pc = "loop"
    /\ grp.skip_arg = 0
    /\ fin.n = 4
    /\ fin.buf = << >>
    /\ \A k \in 1 .. 4 : dispatch(fin.W[k]) = "hit"
    /\ usb.tdc_counter = 4
    /\ \A c \in UsbChannels : usb.tdc_hit_count[c] = 1
    /\ usb.out = << >>

\* the output is one block line of mode m: six tokens, each the magnitude of
\* the difference of the times of its two channels, unwrapped once
OneBlockLine(s, times, m) ==
    /\ s.pc = "loop"
    /\ Len(s.out) = 1
    /\ s.out[1].mode = m
    /\ Len(s.out[1].pairs) = 6
    /\ \A k \in 1 .. 6 :
          LET t == s.out[1].pairs[k]
          IN  t[3] = Abs(pair_diff(times, t[1], t[2]))

\* no two of the four times differ by more than 11000 ns after one unwrap
WithinTimeDiffMax(times) ==
    \A a, b \in UsbChannels : Abs(pair_diff(times, a, b)) <= TIME_DIFF_MAX

\* C11, as claimed: with skip_events = 0, four in-block hits, one on each of
\* the channels 0..3, followed by a hit that classifies as mode 0 make the
\* decoder emit exactly one block line, six pair tokens and the mode tag 0.
C11_FourHitsThenMode0 ==
    [][ (FourHitsRead /\ fin'.n = 5 /\ ReadsHit(fin'.W[5])
         /\ BranchOf(usb, fin'.W[5]) = "mode0")
        => OneBlockLine(usb', usb.tdc_time_history, 0) ]_vars

\* C11, amended: the same, provided no two of the four hit times differ by
\* more than 11000 ns after one unwrap by EPOC_UNIT; otherwise the call raises
\* the overflow error and writes nothing.
C11_FourHitsThenMode0_Amended ==
    [][ (FourHitsRead /\ fin'.n = 5 /\ ReadsHit(fin'.W[5])
         /\ BranchOf(usb, fin'.W[5]) = "mode0")
        => IF WithinTimeDiffMax(usb.tdc_time_history)
           THEN OneBlockLine(usb', usb.tdc_time_history, 0)
           ELSE /\ usb'.raised = "Time diff overflow"
                /\ usb'.out = << >> ]_vars

\* four hits and a mode 0 hit were read and one line of real data is out
C11_Witness ==
    /\ grp.skip_arg = 0
    /\ fin.n = 5
    /\ \A k \in 1 .. 5 : dispatch(fin.W[k]) = "hit"
    /\ grp.boundaries = 1
    /\ usb.tdc_counter = 1
    /\ Len(usb.out) = 1
    /\ usb.out[1].mode = 0
    /\ usb.out[1].pairs[1][3] > 0

\* the mode tag of a boundary hit
ModeTag(branch) == IF branch = "mode0" THEN 0 ELSE 1

\* a block line of mode m whose six tokens are the magnitudes of the
\* differences of times, each unwrapped once
RealLine(line, times, m) ==
    /\ line.mode = m
    /\ Len(line.pairs) = 6
    /\ \A k \in 1 .. 6 :
          line.pairs[k][3] =
              Abs(pair_diff(times, line.pairs[k][1], line.pairs[k][2]))

\* a block line of mode m whose six tokens are 0.00000
ZeroLine(line, m) ==
    /\ line.mode = m
    /\ Len(line.pairs) = 6
    /\ \A k \in 1 .. 6 : line.pairs[k][3] = 0

\* the block holds the hit word w and nothing else
BlockHoldsOnly(s, w) ==
    /\ s.tdc_counter = 1
    /\ \A c \in UsbChannels :
          /\ s.tdc_hit_count[c] = (IF c = UsbChannel(w) THEN 1 ELSE 0)
          /\ s.tdc_time_history[c] = (IF c = UsbChannel(w) THEN UsbTime(w)
                                      ELSE 0)

\* counter == 4 and every hit_count entry is 1
CompleteBlock(s) ==
    /\ s.tdc_counter = 4
    /\ \A c \in UsbChannels : s.tdc_hit_count[c] = 1

\* the step is a pass of the loop body on a hit that classifies as mode 0
\* or 1, with no skip budget left
BoundaryNoBudget ==
    /\ ReadsHit(usb'.dataword)
    /\ BranchOf(usb, usb'.dataword) \in {"mode0", "mode1"}
    /\ usb.skip_events = 0

\* the step writes one line, real data if the block is complete and zeros
\* otherwise, and leaves the boundary hit alone in the block
OneLineThenReseed ==
    /\ Len(usb'.out) = Len(usb.out) + 1
    /\ SubSeq(usb'.out, 1, Len(usb.out)) = usb.out
    /\ LET line == usb'.out[Len(usb'.out)]
           m == ModeTag(BranchOf(usb, usb'.dataword))
       IN  IF CompleteBlock(usb)
           THEN RealLine(line, usb.tdc_time_history, m)
           ELSE ZeroLine(line, m)
    /\ BlockHoldsOnly(usb', usb'.dataword)

\* C12, as claimed: at every hit classified mode 0 or 1 that is reached with
\* no skip budget left the decoder emits exactly one line, the real matrix
\* iff counter == 4 and every hit_count is 1 and a zero-filled placeholder
\* otherwise, and afterwards the block holds only the triggering hit.
C12_BoundaryEmitsOneLine ==
    [][ BoundaryNoBudget => OneLineThenReseed ]_vars

\* C12, amended: the same, except when the block is complete and two of its
\* times differ by more than 11000 ns after one unwrap: then the call raises
\* the overflow error, writes nothing and leaves the block as it was.
C12_BoundaryEmitsOneLine_Amended ==
    [][ BoundaryNoBudget =>
          IF CompleteBlock(usb) /\ ~WithinTimeDiffMax(usb.tdc_time_history)
          THEN /\ usb'.raised = "Time diff overflow"
               /\ usb'.out = usb.out
               /\ usb'.tdc_counter = usb.tdc_counter
               /\ usb'.tdc_hit_count = usb.tdc_hit_count
               /\ usb'.tdc_time_history = usb.tdc_time_history
          ELSE OneLineThenReseed ]_vars

\* two boundaries were passed without skip budget: the first closed a
\* complete block (real data), the second an incomplete one (placeholder)
C12_Witness ==
    /\ grp.skip_arg = 0
    /\ grp.boundaries = 2
    /\ Len(usb.out) = 2
    /\ usb.out[1].pairs[1][3] > 0
    /\ ZeroLine(usb.out[2], 0)
    /\ dispatch(usb.dataword) = "hit"
    /\ BlockHoldsOnly(usb, usb.dataword)

\* C13: a spurious or unknown-timing hit is recovered locally, no record is
\* lost beyond the ambiguous hit itself: a complete block (one hit on each of
\* the four channels, none of them skipped, times within 11000 ns) that waits
\* for its line when a skipped hit arrives is still written with its real
\* data at the next hit classified mode 0 or 1.
C13_SkippedHitLosesNoBlock ==
    [][ (/\ BoundaryNoBudget
         /\ PendingBlock(grp) # << >>
         /\ WithinTimeDiffMax(PendingBlock(grp)[1]))
        => /\ Len(usb'.out) = Len(usb.out) + 1
           /\ RealLine(usb'.out[Len(usb'.out)], PendingBlock(grp)[1],
                       ModeTag(BranchOf(usb, usb'.dataword))) ]_vars

\* C14: with skip_events = k the first k blocks are skipped: at each of the
\* first k hits classified mode 0 or 1 the decoder writes no block line,
\* real or placeholder, and takes one off the budget.
C14_FirstBlocksSkipped ==
    [][ (/\ ReadsHit(usb'.dataword)
         /\ BranchOf(usb, usb'.dataword) \in {"mode0", "mode1"}
         /\ grp.boundaries < grp.skip_arg)
        => /\ usb'.out = usb.out
           /\ usb'.skip_events = usb.skip_events - 1 ]_vars

\* C15: a hit word (channel < 4) whose fine field is COARSE_UNIT = 200000 or
\* more, 200000 included, aborts the call with the invalid-fine-time error
\* before the block or the previous-hit time is changed.
C15_FineAtLeastCoarseUnitAborts ==
    [][ (/\ ReadsWord(usb'.dataword)
         /\ dispatch(usb'.dataword) = "hit"
         /\ UsbFine(usb'.dataword) >= COARSE_UNIT)
        => /\ usb'.pc = "raised"
           /\ usb'.raised = "Invalid fine time."
           /\ usb'.tdc_counter = usb.tdc_counter
           /\ usb'.tdc_hit_count = usb.tdc_hit_count
           /\ usb'.tdc_time_history = usb.tdc_time_history
           /\ usb'.old_tdc_time = usb.old_tdc_time ]_vars

\* the last line of the output of the state s
LastLine(s) == s.out[Len(s.out)]

\* what a step does to the output: nothing, one more block line, one more
\* temperature line
WritesNothing == usb'.out = usb.out
WritesBlockLine ==
    /\ Len(usb'.out) = Len(usb.out) + 1
    /\ SubSeq(usb'.out, 1, Len(usb.out)) = usb.out
    /\ "pairs" \in DOMAIN LastLine(usb')
WritesTemperatureLine ==
    /\ Len(usb'.out) = Len(usb.out) + 1
    /\ SubSeq(usb'.out, 1, Len(usb.out)) = usb.out
    /\ "label" \in DOMAIN LastLine(usb')

\* the three ways the loop body treats a word
TreatedAsHit ==
    \/ /\ usb'.raised \in {"Invalid fine time.", "Time diff overflow"}
       /\ WritesNothing
    \/ /\ usb'.raised = "none"
       /\ usb'.old_tdc_time = UsbTime(usb'.dataword)
       /\ ~usb'.first_hit
       /\ WritesNothing \/ WritesBlockLine
TreatedAsTemperature ==
    /\ usb'.raised = "none"
    /\ WritesTemperatureLine
    /\ usb'.old_tdc_time = usb.old_tdc_time
    /\ usb'.first_hit = usb.first_hit
TreatedAsBroken ==
    /\ usb'.pc = "raised"
    /\ usb'.raised = "Broken channel"
    /\ WritesNothing

\* C16: every word goes by its bits 36..39 to exactly one of TDC hit (0..3),
\* temperature (4) and protocol violation (5..15); a word with channel > 4
\* aborts the call with the broken-channel error and nothing is written for
\* it (the call has left the loop: nothing is written after it either).
C16_DispatchOnChannelNibble ==
    [][ ReadsWord(usb'.dataword) =>
          LET nibble == usb'.dataword[1] \div 16
          IN  /\ TreatedAsHit <=> nibble \in 0 .. 3
              /\ TreatedAsTemperature <=> nibble = 4
              /\ TreatedAsBroken <=> nibble \in 5 .. 15 ]_vars

\* a hit and a temperature word were decoded and a broken channel ended the
\* call
C16_Witness ==
    /\ usb.raised = "Broken channel"
    /\ usb.dataword[1] \div 16 = 9
    /\ usb.tdc_counter >= 1
    /\ Len(usb.out) >= 1
    /\ "label" \in DOMAIN usb.out[1]

\* C17: a hit whose diff exceeds 1.10*max_diff and lies in neither mode
\* window (diff <= 0.9P, 1.1P < diff <= 1.8P, or diff > 2.2P) is skipped:
\* nothing is written, time_history, hit_count, counter and the skip budget
\* stay as they are, and the loop goes on.
C17_OutsideWindowsSkipped ==
    [][ (/\ ReadsHit(usb'.dataword)
         /\ LET d == time_diff(usb, UsbTime(usb'.dataword))
                P == usb.dlm_period
            IN  /\ 10 * d > 11 * usb.dlm_diff
                /\ \/ 10 * d <= 9 * P
                   \/ 11 * P < 10 * d /\ 10 * d <= 18 * P
                   \/ 10 * d > 22 * P)
        => /\ usb'.pc = "loop"
           /\ usb'.out = usb.out
           /\ usb'.tdc_time_history = usb.tdc_time_history
           /\ usb'.tdc_hit_count = usb.tdc_hit_count
           /\ usb'.tdc_counter = usb.tdc_counter
           /\ usb'.skip_events = usb.skip_events ]_vars

\* the last word was a hit far above both mode windows, read while the block
\* held four hits, and the block still holds them
C17_Witness ==
    /\ usb.pc = "loop"
    /\ usb.dataword # << >>
    /\ dispatch(usb.dataword) = "hit"
    /\ usb.old_tdc_time = UsbTime(usb.dataword)
    /\ grp.skipped
    /\ \A c \in UsbChannels :
          grp.tdc_hit_count[c] = (IF c = UsbChannel(usb.dataword) THEN 1
                                  ELSE 0)
    /\ usb.tdc_counter = 4
    /\ \A c \in UsbChannels : usb.tdc_time_history[c] < TIME_DIFF_MAX
    /\ 10 * usb.old_tdc_time > 22 * usb.dlm_period
    /\ usb.out = << >>

\* the pairs (i-1, j) in the order of the loops of lines 581-582
PairOrder == << <<3, 0>>, <<3, 1>>, <<3, 2>>, <<2, 0>>, <<2, 1>>, <<1, 0>> >>

\* times[a] - times[b], moved once by EPOC_UNIT against its sign when its
\* magnitude exceeds 11000
UnwrappedOnce(times, a, b) ==
    LET raw == times[a] - times[b]
    IN  IF raw > TIME_DIFF_MAX THEN raw - EPOC_UNIT_NS
        ELSE IF raw < 0 - TIME_DIFF_MAX THEN raw + EPOC_UNIT_NS
        ELSE raw

\* C18: when a complete block is emitted, the six differences
\* time[i-1] - time[j] come in the order 3.0, 3.1, 3.2, 2.0, 2.1, 1.0, each
\* unwrapped exactly once by EPOC_UNIT when its magnitude exceeds 11000; if
\* one is still above 11000 the call raises the overflow error and no part
\* of the line is written.
C18_PairOrderUnwrapOverflow ==
    [][ (BoundaryNoBudget /\ CompleteBlock(usb)) =>
          LET times == usb.tdc_time_history
              u(k) == UnwrappedOnce(times, PairOrder[k][1], PairOrder[k][2])
          IN  IF \E k \in 1 .. 6 : Abs(u(k)) > TIME_DIFF_MAX
              THEN /\ usb'.pc = "raised"
                   /\ usb'.raised = "Time diff overflow"
                   /\ usb'.out = usb.out
              ELSE /\ usb'.pc = "loop"
                   /\ Len(usb'.out) = Len(usb.out) + 1
                   /\ SubSeq(usb'.out, 1, Len(usb.out)) = usb.out
                   /\ LET line == usb'.out[Len(usb'.out)]
                      IN  /\ Len(line.pairs) = 6
                          /\ \A k \in 1 .. 6 :
                                line.pairs[k] = <<PairOrder[k][1],
                                                  PairOrder[k][2],
                                                  Abs(u(k))>> ]_vars

\* a complete block that straddles the epoch wrap was emitted: channel 3 was
\* hit 1 ns before the wrap and channels 0, 1, 2 at 0, 3 and 1 ns after it
C18_Witness ==
    /\ usb.pc = "loop"
    /\ grp.skip_arg = 0
    /\ grp.boundaries = 1
    /\ Len(usb.out) = 1
    /\ usb.out[1].pairs = << <<3, 0, 1>>, <<3, 1, 4>>, <<3, 2, 2>>,
                             <<2, 0, 1>>, <<2, 1, 2>>, <<1, 0, 3>> >>

\* C19: every channel-4 word makes the decoder write exactly one temperature
\* line, whatever its status and address (the sentinel -66.6666 with the
\* error label when the status is not 0, the sentinel with the unknown-sensor
\* label when the status is 0 and the address is neither 0x9E nor 0x92), and
\* leaves the block accumulator, the previous-hit time, the first-hit flag
\* and the skip budget unchanged.
C19_TemperatureAlwaysOneLine ==
    [][ (ReadsWord(usb'.dataword) /\ UsbChannel(usb'.dataword) = TEMP_CHANNEL)
        => LET w == usb'.dataword
               line == usb'.out[Len(usb'.out)]
           IN  /\ usb'.pc = "loop"
               /\ Len(usb'.out) = Len(usb.out) + 1
               /\ SubSeq(usb'.out, 1, Len(usb.out)) = usb.out
               /\ DOMAIN line = {"temp", "label"}
               /\ I2cStatus(w) # 0
                    => line.temp = TEMP_SENTINEL /\ line.label = "error"
               /\ (I2cStatus(w) = 0 /\ I2cAddr(w) \notin {I2C_MAX31726, I2C_LM75B})
                    => /\ line.temp = TEMP_SENTINEL
                       /\ line.label = "unknown I2C"
               /\ (I2cStatus(w) = 0 /\ I2cAddr(w) \in {I2C_MAX31726, I2C_LM75B})
                    => line.label \in {"MAX31726", "LM75B"}
               /\ usb'.tdc_time_history = usb.tdc_time_history
               /\ usb'.tdc_hit_count = usb.tdc_hit_count
               /\ usb'.tdc_counter = usb.tdc_counter
               /\ usb'.old_tdc_time = usb.old_tdc_time
               /\ usb'.first_hit = usb.first_hit
               /\ usb'.skip_events = usb.skip_events ]_vars

\* a failed reading and a reading of an unknown sensor arrived inside a
\* block, with skip budget left: both lines are out and the block goes on
C19_Witness ==
    /\ usb.pc = "loop"
    /\ usb.dataword # << >>
    /\ UsbChannel(usb.dataword) = TEMP_CHANNEL
    /\ usb.tdc_counter = 2
    /\ usb.skip_events = 1
    /\ ~usb.first_hit
    /\ Len(usb.out) = 2
    /\ usb.out[1] = [temp |-> TEMP_SENTINEL, label |-> "error"]
    /\ usb.out[2] = [temp |-> TEMP_SENTINEL, label |-> "unknown I2C"]

\* C20: the magic header is advisory: for any sequence W of 40-bit words the
\* call on the capture W ends with the same output, and the same fatal error
\* if any, as the call on the capture made of the magic token followed by W.
C20_HeaderAdvisory ==
    (usb.pc \in {"done", "raised"} /\ ~fin.header)
        => /\ usb.out = ref.out
           /\ usb.raised = ref.raised

\* the block of the state s: tdc_time_history, tdc_hit_count, tdc_counter
BlockOf(s) == <<s.tdc_time_history, s.tdc_hit_count, s.tdc_counter>>

\* the block without a hit
EmptyBlock ==
    <<[c \in UsbChannels |-> 0], [c \in UsbChannels |-> 0], 0>>

\* the block b with one more hit on a channel at a time
WithHit(b, channel, tdc_time) ==
    <<[b[1] EXCEPT ![channel] = tdc_time],
      [b[2] EXCEPT ![channel] = @ + 1],
      b[3] + 1>>

\* C36: at every pass of the loop of decode_usb_tdc the block counter is the
\* sum of the four hit counts, and tdc_time_history[c] is the time of the
\* last hit recorded on channel c since the last reset, 0.0 when
\* tdc_hit_count[c] is 0: a hit inside the in-block window adds itself to
\* the block, a boundary hit leaves the block with itself alone, and no
\* other word changes the block.
C36_BlockAccounting ==
    /\ [](/\ usb.tdc_counter = usb.tdc_hit_count[0] + usb.tdc_hit_count[1]
                               + usb.tdc_hit_count[2] + usb.tdc_hit_count[3]
          /\ \A c \in UsbChannels :
                /\ usb.tdc_hit_count[c] >= 0
                /\ usb.tdc_hit_count[c] = 0 => usb.tdc_time_history[c] = 0)
    /\ [][ LET w == usb'.dataword
               hit == /\ usb.pc = "loop"
                      /\ usb'.pc = "loop"
                      /\ w # << >>
                      /\ dispatch(w) = "hit"
                      /\ ~InvalidFine(UsbFine(w))
           IN  BlockOf(usb') =
                  IF hit /\ BranchOf(usb, w) = "in_block"
                  THEN WithHit(BlockOf(usb), UsbChannel(w), UsbTime(w))
                  ELSE IF hit /\ BranchOf(usb, w) \in {"mode0", "mode1"}
                  THEN WithHit(EmptyBlock, UsbChannel(w), UsbTime(w))
                  ELSE BlockOf(usb) ]_vars

\* a boundary hit on channel 0 closed a block of four hits and is alone in
\* the new block
C36_Witness ==
    /\ usb.pc = "loop"
    /\ Len(usb.out) = 1
    /\ "pairs" \in DOMAIN usb.out[1]
    /\ usb.out[1].pairs[1][3] # 0
    /\ usb.tdc_counter = 1
    /\ usb.tdc_hit_count[0] = 1
    /\ usb.tdc_time_history[0] = UsbTime(usb.dataword)
    /\ \A c \in UsbChannels \ {0} : usb.tdc_time_history[c] = 0
    /\ grp.boundaries >= 1

\* the block lines of an output
BlockLines(out) == {k \in 1 .. Len(out) : "pairs" \in DOMAIN out[k]}

\* C37: decode_usb_tdc writes a block line only when a later boundary hit
\* arrives.  The number of block lines never exceeds the number of hits
\* classified as mode 0 or 1, a step that writes a block line reads such a
\* hit, and the end of the stream writes nothing: the block that is being
\* accumulated then is never emitted.
C37_NoFlushAtEndOfStream ==
    /\ [](Cardinality(BlockLines(usb.out)) <= grp.boundaries)
    /\ [][ /\ Cardinality(BlockLines(usb'.out))
                 > Cardinality(BlockLines(usb.out))
              => /\ Cardinality(BlockLines(usb'.out))
                       = Cardinality(BlockLines(usb.out)) + 1
                 /\ grp'.boundaries = grp.boundaries + 1
                 /\ BranchOf(usb, usb'.dataword) \in {"mode0", "mode1"}
           /\ usb'.pc = "done" => usb'.out = usb.out ]_vars

\* the stream ended behind four hits on four channels: no line
C37_Witness ==
    /\ usb.pc = "done"
    /\ usb.tdc_counter = 4
    /\ \A c \in UsbChannels : usb.tdc_hit_count[c] = 1
    /\ grp.skip_arg = 0
    /\ BlockLines(usb.out) = {}

\* C34: the hits recorded in one block lie within the in-block window of
\* each other: every difference of a block line written as real data is at
\* most 3 * 1.10 * max_diff, and with 3.3 * max_diff <= 11000 the overflow
\* error of the pair loop is never raised, whatever spurious or
\* unknown-timing hits the stream holds.  (Refuted: a skipped hit moves
\* old_tdc_time, and the hits behind it join the block of the hits before
\* it.)
C34_BlockWithinWindow ==
    10 * 33 * usb.dlm_diff <= 100 * TIME_DIFF_MAX =>
       /\ usb.raised # "Time diff overflow"
       /\ \A k \in BlockLines(usb.out) : \A i \in 1 .. 6 :
             100 * usb.out[k].pairs[i][3] <= 330 * usb.dlm_diff

(***************************************************************************)
(* Properties of a run of either decoder                                   *)
(***************************************************************************)
\* the sequence t is the sequence s, possibly with records appended
Extends(s, t) == Len(s) <= Len(t) /\ SubSeq(t, 1, Len(s)) = s

\* C21: when unpack_dlm_data or decode_usb_tdc, writing to an output file,
\* aborts on a fatal error, the file holds exactly the records emitted
\* before the offending word, in emission order: no step removes or alters a
\* record, the step that raises writes nothing, and nothing is written after
\* it.
C21_FatalErrorKeepsRecords ==
    [][ IF usb = << >>
        THEN /\ Extends(fout, fout')
             /\ outfile = "path" => Len(fout') = Len(log')
             /\ (pc' = "raised" \/ pc = "raised") => fout' = fout
        ELSE /\ Extends(usb.out, usb'.out)
             /\ (usb'.pc = "raised" \/ usb.pc = "raised")
                   => usb'.out = usb.out ]_vars

\* unpack_dlm_data wrote a record to the file and then aborted on a channel
\* mixup: the record is still in the file
C21_Witness ==
    /\ usb = << >>
    /\ outfile = "path"
    /\ pc = "raised"
    /\ raised = "ValueError: Channel mixup detected"
    /\ Len(fout) >= 1
    /\ Len(fout) = Len(log)

(***************************************************************************)
(* Part 3: average_dlm_data, data_processing.py lines 434-540              *)
(*                                                                         *)
(* The input is a text file of lines "channel delay mode", the output of   *)
(* unpack_dlm_data.  A delay is an integer count of 0.00001 ns, the        *)
(* resolution of the text.  The code reads all the lines (lines 460-475)   *)
(* and then walks the list of pairs (lines 496-527); the model reads a     *)
(* line when the walk reaches it.                                          *)
(***************************************************************************)
\* longest input that is read, in lines
MaxAvgLines == 7

\* the lines of an input: pairs (channel, delay) and lines that the parsing
\* of lines 464-475 drops (blank, comment, one column, not a number)
AvgLines ==
    { [kind |-> "pair", channel |-> 0, delay |-> 10],
      [kind |-> "pair", channel |-> 0, delay |-> 30],
      [kind |-> "pair", channel |-> 1, delay |-> 20],
      [kind |-> "pair", channel |-> 2, delay |-> 40],
      [kind |-> "blank", channel |-> 0, delay |-> 0],
      [kind |-> "comment", channel |-> 0, delay |-> 0],
      [kind |-> "short", channel |-> 0, delay |-> 0],
      [kind |-> "text", channel |-> 0, delay |-> 0] }

\* the calls: mean_expected and n_channels
AvgCalls ==
    { [mean_expected |-> 0, n_channels |-> 2],
      [mean_expected |-> 1, n_channels |-> 2],
      [mean_expected |-> 2, n_channels |-> 2],
      [mean_expected |-> 1, n_channels |-> 3],
      [mean_expected |-> 2, n_channels |-> 3] }

\* lines 464-475: the pair of a line, if it has one
parse_line(line) ==
    IF line.kind = "pair"
    THEN << [channel |-> line.channel, delay |-> line.delay] >>
    ELSE << >>

\* the locals of a call
\*   pc       "start", "loop" (at the for statement of line 496), "done",
\*            "raised"
\*   n_lines  number of lines read
\*   data     number of pairs read (len(data) so far)
\*   buffer   the samples of the current channel, each with its position in
\*            data (history)
\*   tmp      the cycle row: entries (channel, sum of the samples, the
\*            positions of the samples (history))
\*   results  the lines to write, each the cycle row flushed
\*   out      the lines written or printed (lines 533-540)
\*   opened   whether outfile was opened for writing (line 534)
\*   rollover history: position of the first pair whose channel is lower
\*            than its predecessor's, 0 if there was none so far
\*   input    history: the pairs read, data[0 .. data-1]
AvgStart(args) ==
    [pc |-> "start", raised |-> "none",
     mean_expected |-> args.mean_expected, n_channels |-> args.n_channels,
     n_lines |-> 0, data |-> 0,
     results |-> << >>, buffer |-> << >>, tmp |-> << >>,
     prev_channel |-> 0, data_ok |-> FALSE, skipped_entries |-> 0,
     out |-> << >>, opened |-> FALSE, rollover |-> 0, input |-> << >>]

RECURSIVE SumDelays(_)
\* sum(d for _, d in buffer)
SumDelays(buffer) ==
    IF buffer = << >> THEN 0
    ELSE buffer[1].delay + SumDelays(Tail(buffer))

\* f"{v:.5f}" of v = sum / n: the nearest count of 0.00001, the even one of
\* two equally near (the delays of AvgLines give no such sum)
Mean5(sum, n) ==
    LET q == sum \div n
        r == sum % n
    IN  IF 2 * r > n THEN q + 1
        ELSE IF 2 * r = n THEN q + (q % 2)
        ELSE q

\* lines 499-500 and 525-526: the entry of the cycle row for a full buffer
AvgEntry(channel, buffer) ==
    [channel |-> channel, sum |-> SumDelays(buffer),
     from |-> {buffer[k].pos : k \in 1 .. Len(buffer)}]

\* line 490: the line of the cycle row
AvgLine(a) ==
    [k \in 1 .. Len(a.tmp) |->
        [channel |-> a.tmp[k].channel,
         mean |-> Mean5(a.tmp[k].sum, a.mean_expected),
         from |-> a.tmp[k].from]]

\* a flush_hist that drops a cycle row of the wrong length
flush_hist_lenient(a) ==
    IF Len(a.tmp) = a.n_channels
    THEN [a EXCEPT !.results = Append(@, AvgLine(a))]
    ELSE a

\* lines 488-494
flush_hist(a) ==
    IF Len(a.tmp) = a.n_channels
    THEN [a EXCEPT !.results = Append(@, AvgLine(a))]
    ELSE [a EXCEPT !.pc = "raised",
                   !.raised = "ValueError: Expected n_channels in hist"]

\* lines 498-503: a channel change closes the buffer of the channel before
close_buffer(a) ==
    IF a.data_ok /\ Len(a.buffer) = a.mean_expected
    THEN [a EXCEPT !.tmp = Append(@, AvgEntry(a.prev_channel, a.buffer))]
    ELSE [a EXCEPT !.skipped_entries = @ + Len(a.buffer)]

\* a rollover that writes the lines as soon as they are flushed
on_rollover_writing(a) ==
    IF a.data_ok
    THEN LET f == flush_hist(a)
         IN  IF f.pc = "raised" THEN f
             ELSE [f EXCEPT !.tmp = << >>, !.opened = TRUE,
                            !.out = f.results]
    ELSE [a EXCEPT !.data_ok = TRUE, !.tmp = << >>]

\* lines 506-516: channel < prev_channel
on_rollover(a) ==
    IF a.data_ok
    THEN LET f == flush_hist(a)
         IN  IF f.pc = "raised" THEN f ELSE [f EXCEPT !.tmp = << >>]
    ELSE [a EXCEPT !.data_ok = TRUE, !.tmp = << >>]

\* lines 524-527: a full buffer is averaged into the cycle row
take_full_buffer(a, channel) ==
    IF Len(a.buffer) = a.mean_expected /\ a.data_ok
    THEN [a EXCEPT !.tmp = Append(@, AvgEntry(channel, a.buffer)),
                   !.buffer = << >>]
    ELSE a

\* a loop body that keeps the buffer across a channel change
avg_step_keepbuffer(a, p, pos) ==
    LET sample == [channel |-> p.channel, delay |-> p.delay, pos |-> pos]
        changed == p.channel # a.prev_channel
        rolled == changed /\ p.channel < a.prev_channel
        a1 == IF changed THEN close_buffer(a) ELSE a
        a2 == IF rolled THEN on_rollover(a1) ELSE a1
        a3 == [a2 EXCEPT !.buffer = Append(@, sample),
                         !.prev_channel = p.channel,
                         !.input = Append(@, p),
                         !.rollover = IF rolled /\ @ = 0 THEN pos ELSE @]
    IN  IF a2.pc = "raised" THEN a2
        ELSE take_full_buffer(a3, p.channel)

\* lines 496-527: the loop body on the pair p, the pos-th of data
avg_step(a, p, pos) ==
    LET sample == [channel |-> p.channel, delay |-> p.delay, pos |-> pos]
        changed == p.channel # a.prev_channel
        rolled == changed /\ p.channel < a.prev_channel
        a1 == IF changed THEN close_buffer(a) ELSE a
        a2 == IF rolled THEN on_rollover(a1) ELSE a1
        a3 == [a2 EXCEPT !.buffer = IF changed THEN << sample >>
                                    ELSE Append(@, sample),
                         !.prev_channel = p.channel,
                         !.input = Append(@, p),
                         !.rollover = IF rolled /\ @ = 0 THEN pos ELSE @]
    IN  IF a2.pc = "raised" THEN [a2 EXCEPT !.input = Append(@, p)]
        ELSE take_full_buffer(a3, p.channel)

\* lines 529-540: the last cycle row and the writing of the lines
avg_finish(a) ==
    LET f == IF a.data_ok /\ Len(a.tmp) = a.n_channels THEN flush_hist(a)
             ELSE a
    IN  [f EXCEPT !.pc = "done", !.opened = TRUE, !.out = f.results]

\* no decoder is called
DecodersIdle ==
    /\ DlmIdle
    /\ usb = << >>
    /\ fin = << >>
    /\ ref = << >>
    /\ grp = << >>

InitAvg ==
    /\ \E args \in AvgCalls : avg = AvgStart(args)
    /\ uavg = << >>
    /\ cal = << >>
    /\ cap = << >>
    /\ DecodersIdle

\* lines 456-457
AvgCheckArguments ==
    /\ avg.pc = "start"
    /\ avg' = IF avg.mean_expected <= 0
              THEN [avg EXCEPT !.pc = "raised",
                               !.raised = "ValueError: mean_expected"]
              ELSE [avg EXCEPT !.pc = "loop"]
    /\ UNCHANGED <<dlm_vars, usb_vars, uavg, cal, cap>>

\* lines 465-475: a line without a pair
AvgSkipLine ==
    /\ avg.pc = "loop"
    /\ avg.n_lines < MaxAvgLines
    /\ \E line \in AvgLines :
          /\ parse_line(line) = << >>
          /\ avg' = [avg EXCEPT !.n_lines = @ + 1]
    /\ UNCHANGED <<dlm_vars, usb_vars, uavg, cal, cap>>

\* lines 480 and 496-527: the next pair of data; the first one is its own
\* predecessor (prev_channel = data[0][0])
AvgPair ==
    /\ avg.pc = "loop"
    /\ avg.n_lines < MaxAvgLines
    /\ \E line \in AvgLines :
          /\ parse_line(line) # << >>
          /\ LET p == parse_line(line)[1]
                 a == [avg EXCEPT !.n_lines = @ + 1, !.data = @ + 1,
                                  !.prev_channel = IF avg.data = 0
                                                   THEN p.channel ELSE @]
             IN  avg' = avg_step(a, p, a.data)
    /\ UNCHANGED <<dlm_vars, usb_vars, uavg, cal, cap>>

\* the input ends: line 480 raises on an empty data, otherwise lines 529-540
AvgEnd ==
    /\ avg.pc = "loop"
    /\ avg' = IF avg.data = 0
              THEN [avg EXCEPT !.pc = "raised", !.raised = "IndexError"]
              ELSE avg_finish(avg)
    /\ UNCHANGED <<dlm_vars, usb_vars, uavg, cal, cap>>

NextAvg ==
    \/ AvgCheckArguments
    \/ AvgSkipLine
    \/ AvgPair
    \/ AvgEnd

SpecAvg == InitAvg /\ [][NextAvg]_vars

(***************************************************************************)
(* Properties of average_dlm_data                                          *)
(***************************************************************************)
\* the channels and means of the lines written
AvgShown(lines) ==
    [k \in 1 .. Len(lines) |->
        [j \in 1 .. Len(lines[k]) |->
            <<lines[k][j].channel, lines[k][j].mean>>]]

\* the input is (0,d0),(0,d0),(1,d1),(1,d1),(2,d2),(2,d2)
ThreeChannelsTwice(input) ==
    /\ Len(input) = 6
    /\ \A c \in 0 .. 2 :
          /\ input[2 * c + 1].channel = c
          /\ input[2 * c + 2] = input[2 * c + 1]

\* C22: with n_channels = 3 and mean_expected = 2 the complete stream
\* (0,d0),(0,d0),(1,d1),(1,d1),(2,d2),(2,d2) gives exactly one line, channel
\* 0 with mean d0, channel 1 with mean d1 and channel 2 with mean d2, and no
\* skipped entries are counted.
C22_CompleteStreamOneLine ==
    (/\ avg.pc \in {"done", "raised"}
     /\ avg.mean_expected = 2
     /\ avg.n_channels = 3
     /\ ThreeChannelsTwice(avg.input))
    => /\ avg.pc = "done"
       /\ AvgShown(avg.out) = << << <<0, avg.input[1].delay>>,
                                    <<1, avg.input[3].delay>>,
                                    <<2, avg.input[5].delay>> >> >>
       /\ avg.skipped_entries = 0

\* the input up to position i has no fault but same-channel runs that are
\* too short: behind the first rollover the channels go 0, 1, ...,
\* n_channels-1, 0, ... and no channel has more than mean_expected samples
\* in a row
OnlyShortRuns(a) ==
    LET ch(i) == a.input[i].channel
        r == a.rollover
    IN  /\ \A i \in 1 .. Len(a.input) : ch(i) < a.n_channels
        /\ r # 0 => ch(r) = 0
        /\ \A i \in 2 .. Len(a.input) :
              i > r /\ r # 0 =>
                 /\ ch(i) > ch(i - 1) => ch(i) = ch(i - 1) + 1
                 /\ ch(i) < ch(i - 1)
                       => ch(i) = 0 /\ ch(i - 1) = a.n_channels - 1
                 /\ i - a.mean_expected >= r
                       => \E j \in (i - a.mean_expected) .. i :
                             ch(j) # ch(i)

\* C23: a same-channel buffer with fewer than mean_expected samples when the
\* channel changes or rolls over is not fatal: its samples are dropped and
\* counted as skipped and this alone never makes the run fail.
C23_IncompleteBufferNotFatal ==
    (avg.pc # "start" /\ avg.data > 0 /\ OnlyShortRuns(avg))
        => avg.pc # "raised"

\* the positions in data of the samples averaged into the lines
Contributors(lines) ==
    UNION { UNION { lines[k][j].from : j \in 1 .. Len(lines[k]) } :
               k \in 1 .. Len(lines) }

\* C24: no sample that precedes the first rollover (the first pair whose
\* channel is lower than its predecessor's) contributes to an output line;
\* an input without any rollover gives no output line.
C24_NothingBeforeFirstRollover ==
    /\ avg.rollover = 0 => avg.results = << >> /\ avg.out = << >>
    /\ \A p \in Contributors(avg.results) \cup Contributors(avg.out) :
          p >= avg.rollover

\* a line was written by a run that had read three pairs before the first
\* rollover, the last two of them a full buffer of channel 1
C24_Witness ==
    /\ avg.pc = "done"
    /\ avg.mean_expected = 2
    /\ avg.rollover = 4
    /\ avg.input[2].channel = 1
    /\ avg.input[3].channel = 1
    /\ Len(avg.out) = 1
    /\ avg.skipped_entries = 3

\* the step reads a pair that rolls over behind the first rollover
LaterRollover ==
    /\ avg.pc = "loop"
    /\ avg'.data = avg.data + 1
    /\ avg.data_ok
    /\ avg'.input[avg'.data].channel < avg.prev_channel

\* C25: every line output holds exactly n_channels (channel, mean) entries;
\* whenever a rollover behind the first one is reached with a cycle row
\* whose length differs from n_channels the run aborts with the consistency
\* error: the row is neither emitted nor dropped silently.
C25_RowLengthChecked ==
    [][ /\ \A k \in 1 .. Len(avg'.results) :
              Len(avg'.results[k]) = avg.n_channels
        /\ \A k \in 1 .. Len(avg'.out) : Len(avg'.out[k]) = avg.n_channels
        /\ LaterRollover =>
              IF Len(avg.tmp) = avg.n_channels
              THEN /\ avg'.pc = "loop"
                   /\ Len(avg'.results) = Len(avg.results) + 1
                   /\ AvgShown(avg'.results)[Len(avg'.results)]
                         = [j \in 1 .. Len(avg.tmp) |->
                               <<avg.tmp[j].channel,
                                 Mean5(avg.tmp[j].sum, avg.mean_expected)>>]
              ELSE /\ avg'.pc = "raised"
                   /\ avg'.raised = "ValueError: Expected n_channels in hist"
                   /\ avg'.results = avg.results
                   /\ avg'.out = << >> ]_vars

\* a first cycle row was flushed as a line, the second had one entry too
\* many at its rollover and the run was aborted
C25_Witness ==
    /\ avg.pc = "raised"
    /\ avg.raised = "ValueError: Expected n_channels in hist"
    /\ Len(avg.results) = 1
    /\ Len(avg.tmp) = avg.n_channels + 1

\* C26: the cycle row is a mapping channel -> averaged delay: in every
\* output line each channel appears at most once and the channels appear in
\* increasing order, for any input, one where a channel delivers
\* 2*mean_expected or more samples in a row included.
C26_RowIsMapping ==
    \A k \in 1 .. Len(avg.out) :
       \A i, j \in 1 .. Len(avg.out[k]) :
          i < j => avg.out[k][i].channel < avg.out[k][j].channel

\* C38: the output of average_dlm_data is all or nothing.  The lines are
\* written only after the whole input was processed: before the end, and
\* when the call is aborted by the row-length error, no line is written and
\* outfile is not opened (neither created nor truncated), also when cycle
\* rows were flushed before; at the end all flushed lines are written.
C38_OutputAllOrNothing ==
    avg # << >> =>
       /\ avg.pc # "done" => avg.out = << >> /\ ~avg.opened
       /\ avg.pc = "done" => avg.out = avg.results /\ avg.opened

\* the row-length error after a cycle row was flushed
C38_Witness ==
    /\ avg.pc = "raised"
    /\ avg.raised = "ValueError: Expected n_channels in hist"
    /\ Len(avg.results) >= 1
    /\ avg.out = << >>

(***************************************************************************)
(* Part 4: average_usb_tdc_data, data_processing.py lines 731-834          *)
(*                                                                         *)
(* The input is a text file, the output of decode_usb_tdc.  A line is the  *)
(* sequence of its whitespace-separated tokens; a token is its text, the   *)
(* flag whether float() accepts it, and its value as a count of            *)
(* 0.00001 ns.  A mean is kept as the pair (sum, number of lines) and put  *)
(* on the grid of 0.00001 where it is printed.                             *)
(***************************************************************************)
\* longest input that is read, in lines
MaxUavgLines == 6

Tok(s, num, v) == [s |-> s, num |-> num, v |-> v]

\* a block line of decode_usb_tdc (lines 588-590): six tokens "i.j" each
\* followed by a value, and the mode tag
BlockLine(v) ==
    << Tok("3.0", TRUE, 0), v[1], Tok("3.1", TRUE, 0), v[2],
       Tok("3.2", TRUE, 0), v[3], Tok("2.0", TRUE, 0), v[4],
       Tok("2.1", TRUE, 0), v[5], Tok("1.0", TRUE, 0), v[6],
       Tok("0", TRUE, 0) >>

Values(v) == [k \in 1 .. 6 |-> Tok("value", TRUE, v[k])]

\* the lines of an input: block lines (the third with a zero total, the
\* fourth with a negative total, the fifth with a value that is no number),
\* temperature lines of four and of five tokens (line 720), a comment, a
\* blank line
UavgLines ==
    { BlockLine(Values(<<10, 20, 30, 40, 50, 60>>)),
      BlockLine(Values(<<30, 0, 10, 0 - 20, 70, 20>>)),
      BlockLine(Values(<<0, 0, 0, 0, 0, 0>>)),
      BlockLine(Values(<<0 - 100, 20, 0, 0, 0, 0>>)),
      BlockLine([Values(<<10, 20, 30, 40, 50, 60>>)
                    EXCEPT ![2] = Tok("x", FALSE, 0)]),
      << Tok("25.0000", TRUE, 2500000), Tok("#", FALSE, 0),
         Tok("TMP", FALSE, 0), Tok("MAX31726", FALSE, 0) >>,
      << Tok("-66.6666", TRUE, 0 - 6666660), Tok("#", FALSE, 0),
         Tok("TMP", FALSE, 0), Tok("unknown", FALSE, 0),
         Tok("I2C", FALSE, 0) >>,
      << Tok("#", FALSE, 0), Tok("comment", FALSE, 0) >>,
      << >> }

\* the calls: mean_expected and verbose
UavgCalls ==
    { [mean_expected |-> 1, verbose |-> FALSE],
      [mean_expected |-> 2, verbose |-> TRUE],
      [mean_expected |-> 3, verbose |-> FALSE] }

\* the locals of a call
\*   pc       "first" (in the loop of lines 755-766), "loop" (in the loop of
\*            lines 820-827), "done", "raised"
\*   sums     the running sums, one per pair
\*   diff_min, diff_max   per pair, the least and the greatest mean above
\*            zero, as (sum, n); n = 0 stands for inf
\*   out      the lines emitted
\*   batch    history: the values of the lines counted in data_read, or of
\*            the lines of the last mean line when data_read is 0
\*   n_data   history: the number of lines read that have the tokens of
\*            num_pairs pairs and a number as every value
UavgStart(args) ==
    [pc |-> "first", raised |-> "none",
     mean_expected |-> args.mean_expected, verbose |-> args.verbose,
     n_lines |-> 0, num_pairs |-> 0,
     data_read |-> 0, data_valid |-> 0,
     sums |-> << >>, diff_min |-> << >>, diff_max |-> << >>,
     ch_labels |-> << >>, out |-> << >>, batch |-> << >>, n_data |-> 0]

\* lines 757-758 and 822-823: the line is blank or starts with "#"
IsBlankOrComment(line) == line = << >> \/ line[1].s = "#"

\* lines 760-761: the line cannot give the number of pairs
NoFirstLine(line) == Len(line) < 3 \/ (Len(line) - 1) % 2 # 0

\* lines 769-774
uavg_init(u, num_pairs) ==
    [u EXCEPT !.num_pairs = num_pairs,
              !.sums = [i \in 1 .. num_pairs |-> 0],
              !.diff_min = [i \in 1 .. num_pairs |-> [sum |-> 0, n |-> 0]],
              !.diff_max = [i \in 1 .. num_pairs |-> [sum |-> 0, n |-> 1]],
              !.ch_labels = [i \in 1 .. num_pairs |-> "None"]]

RECURSIVE SumSeq(_)
\* diffs.sum()
SumSeq(s) == IF s = << >> THEN 0 ELSE s[1] + SumSeq(Tail(s))

\* a / b < c / d for b, d > 0
FracLess(a, b, c, d) == a * d < c * b

\* an emission that leaves data_read, data_valid and sums as they are
uavg_emit_noreset(u) ==
    LET n == IF u.data_valid > 0 THEN u.data_valid ELSE 1
        sums == IF u.data_valid > 0 THEN u.sums
                ELSE [i \in 1 .. u.num_pairs |-> 0]
        line == [kind |-> "mean",
                 pairs |-> [i \in 1 .. u.num_pairs |->
                              <<u.ch_labels[i], Mean5(sums[i], n)>>]]
    IN  [u EXCEPT !.out = Append(@, line)]

\* lines 795-809: the mean line, diff_min and diff_max, and the reset
uavg_emit(u) ==
    LET n == IF u.data_valid > 0 THEN u.data_valid ELSE 1
        sums == IF u.data_valid > 0 THEN u.sums
                ELSE [i \in 1 .. u.num_pairs |-> 0]
        line == [kind |-> "mean",
                 pairs |-> [i \in 1 .. u.num_pairs |->
                              <<u.ch_labels[i], Mean5(sums[i], n)>>]]
        here(i) == [sum |-> sums[i], n |-> n]
        low(i) == IF sums[i] > 0
                     /\ (u.diff_min[i].n = 0
                         \/ FracLess(sums[i], n,
                                     u.diff_min[i].sum, u.diff_min[i].n))
                  THEN here(i) ELSE u.diff_min[i]
        high(i) == IF sums[i] > 0
                      /\ FracLess(u.diff_max[i].sum, u.diff_max[i].n,
                                  sums[i], n)
                   THEN here(i) ELSE u.diff_max[i]
    IN  [u EXCEPT !.out = Append(@, line),
                  !.diff_min = [i \in 1 .. u.num_pairs |-> low(i)],
                  !.diff_max = [i \in 1 .. u.num_pairs |-> high(i)],
                  !.data_read = 0, !.data_valid = 0,
                  !.sums = [i \in 1 .. u.num_pairs |-> 0]]

\* a process that divides the sums by the number of lines read
process_countall(u, parts) ==
    LET bad == {i \in 1 .. u.num_pairs : ~parts[2 * i].num}
        seen == {i \in 1 .. u.num_pairs : \A j \in bad : i < j}
        labelled == [u EXCEPT !.ch_labels =
                        [i \in 1 .. u.num_pairs |->
                            IF i \in seen /\ u.ch_labels[i] = "None"
                            THEN parts[2 * i - 1].s ELSE u.ch_labels[i]]]
        diffs == [i \in 1 .. u.num_pairs |-> parts[2 * i].v]
        counted == [labelled EXCEPT !.data_read = @ + 1,
                                    !.batch = IF u.data_read = 0
                                              THEN << diffs >>
                                              ELSE Append(@, diffs)]
        summed == IF SumSeq(diffs) > 0
                  THEN [counted EXCEPT
                           !.data_valid = @ + 1,
                           !.sums = [i \in 1 .. u.num_pairs |->
                                        u.sums[i] + diffs[i]]]
                  ELSE counted
    IN  IF bad # {} THEN labelled
        ELSE IF summed.data_read = u.mean_expected
        THEN uavg_emit([summed EXCEPT !.data_valid = summed.data_read])
        ELSE summed

\* lines 776-809: process(parts)
process(u, parts) ==
    LET bad == {i \in 1 .. u.num_pairs : ~parts[2 * i].num}
        \* the labels taken before float() fails (lines 780-783)
        seen == {i \in 1 .. u.num_pairs : \A j \in bad : i < j}
        labelled == [u EXCEPT !.ch_labels =
                        [i \in 1 .. u.num_pairs |->
                            IF i \in seen /\ u.ch_labels[i] = "None"
                            THEN parts[2 * i - 1].s ELSE u.ch_labels[i]]]
        diffs == [i \in 1 .. u.num_pairs |-> parts[2 * i].v]
        counted == [labelled EXCEPT !.data_read = @ + 1,
                                    !.batch = IF u.data_read = 0
                                              THEN << diffs >>
                                              ELSE Append(@, diffs)]
        summed == IF SumSeq(diffs) > 0
                  THEN [counted EXCEPT
                           !.data_valid = @ + 1,
                           !.sums = [i \in 1 .. u.num_pairs |->
                                        u.sums[i] + diffs[i]]]
                  ELSE counted
    IN  IF bad # {} THEN labelled
        ELSE IF summed.data_read = u.mean_expected THEN uavg_emit(summed)
        ELSE summed

\* lines 829-834: the summary of a verbose call
uavg_summary(u) ==
    LET three(i) ==
           << [kind |-> "MIN", i |-> i - 1, inf |-> u.diff_min[i].n = 0,
               v |-> IF u.diff_min[i].n = 0 THEN 0
                     ELSE Mean5(u.diff_min[i].sum, u.diff_min[i].n)],
              [kind |-> "MAX", i |-> i - 1, inf |-> FALSE,
               v |-> Mean5(u.diff_max[i].sum, u.diff_max[i].n)],
              [kind |-> "DIF", i |-> i - 1, inf |-> u.diff_min[i].n = 0,
               v |-> IF u.diff_min[i].n = 0 THEN 0
                     ELSE Mean5(u.diff_max[i].sum * u.diff_min[i].n
                                  - u.diff_min[i].sum * u.diff_max[i].n,
                                u.diff_max[i].n * u.diff_min[i].n)] >>
        all[i \in 0 .. u.num_pairs] ==
           IF i = 0 THEN << >> ELSE all[i - 1] \o three(i)
    IN  IF u.verbose THEN [u EXCEPT !.out = @ \o all[u.num_pairs]] ELSE u

InitUavg ==
    /\ \E args \in UavgCalls : uavg = UavgStart(args)
    /\ avg = << >>
    /\ cal = << >>
    /\ cap = << >>
    /\ DecodersIdle

\* lines 755-766 and 817: a line read before the first valid line was found
UavgFirstLine ==
    /\ uavg.pc = "first"
    /\ uavg.n_lines < MaxUavgLines
    /\ \E line \in UavgLines :
          LET data == /\ ~IsBlankOrComment(line)
                      /\ ~NoFirstLine(line)
                      /\ \A k \in 1 .. Len(line) : k % 2 = 0 => line[k].num
              u == [uavg EXCEPT !.n_lines = @ + 1,
                                !.n_data = IF data THEN 1 ELSE 0]
          IN  uavg' = IF IsBlankOrComment(line) \/ NoFirstLine(line) THEN u
                      ELSE process(uavg_init([u EXCEPT !.pc = "loop"],
                                             (Len(line) - 1) \div 2),
                                   line)
    /\ UNCHANGED <<dlm_vars, usb_vars, avg, cal, cap>>

\* lines 820-827: a line behind the first valid line
UavgNextLine ==
    /\ uavg.pc = "loop"
    /\ uavg.n_lines < MaxUavgLines
    /\ \E line \in UavgLines :
          LET data == /\ ~IsBlankOrComment(line)
                      /\ Len(line) = 2 * uavg.num_pairs + 1
                      /\ \A k \in 1 .. Len(line) : k % 2 = 0 => line[k].num
              u == [uavg EXCEPT !.n_lines = @ + 1,
                                !.n_data = IF data THEN @ + 1 ELSE @]
          IN  uavg' = IF \/ IsBlankOrComment(line)
                         \/ Len(line) # 2 * uavg.num_pairs + 1
                      THEN u
                      ELSE process(u, line)
    /\ UNCHANGED <<dlm_vars, usb_vars, avg, cal, cap>>

\* the input ends: lines 767-768 in the first loop, lines 829-834 otherwise
UavgEnd ==
    /\ uavg.pc \in {"first", "loop"}
    /\ uavg' = IF uavg.pc = "first"
               THEN [uavg EXCEPT !.pc = "raised",
                                 !.raised = "ValueError: No valid data lines"]
               ELSE [uavg_summary(uavg) EXCEPT !.pc = "done"]
    /\ UNCHANGED <<dlm_vars, usb_vars, avg, cal, cap>>

NextUavg ==
    \/ UavgFirstLine
    \/ UavgNextLine
    \/ UavgEnd

SpecUavg == InitUavg /\ [][NextUavg]_vars

(***************************************************************************)
(* Properties of average_usb_tdc_data                                      *)
(***************************************************************************)
\* the lines of the batch whose total is above zero
ValidLines(batch) == {k \in 1 .. Len(batch) : SumSeq(batch[k]) > 0}

RECURSIVE PairSum(_, _, _)
\* the sum of the values of pair i over the lines 1 .. k of the batch whose
\* total is above zero
PairSum(batch, i, k) ==
    IF k = 0 THEN 0
    ELSE PairSum(batch, i, k - 1)
         + (IF k \in ValidLines(batch) THEN batch[k][i] ELSE 0)

\* the step emits a mean line
EmitsMeanLine ==
    /\ uavg.pc \in {"first", "loop"}
    /\ uavg'.pc = "loop"
    /\ Len(uavg'.out) = Len(uavg.out) + 1

\* C27: every emitted per-pair mean equals the sum of the pair's values
\* over the lines of the batch whose total is > 0 divided by the number of
\* such lines, and is 0 for every pair when the batch has no such line; a
\* line whose total is not positive is left out of the sums but counts
\* toward the mean_expected threshold.
C27_MeanOverValidLines ==
    [][ EmitsMeanLine =>
          LET batch == uavg'.batch
              line == uavg'.out[Len(uavg'.out)]
              n == Cardinality(ValidLines(batch))
          IN  /\ Len(batch) = uavg.mean_expected
              /\ Len(line.pairs) = uavg'.num_pairs
              /\ \A i \in 1 .. uavg'.num_pairs :
                    line.pairs[i][2] =
                       IF n = 0 THEN 0
                       ELSE Mean5(PairSum(batch, i, Len(batch)), n) ]_vars

\* a mean line was emitted for a batch of three lines of which one had a
\* zero total and one a negative total: the means are the values of the
\* third line
C27_Witness ==
    /\ uavg.pc = "loop"
    /\ uavg.mean_expected = 3
    /\ uavg.data_read = 0
    /\ Len(uavg.out) = 1
    /\ Cardinality(ValidLines(uavg.batch)) = 1
    /\ \E k \in 1 .. 3 : SumSeq(uavg.batch[k]) < 0
    /\ \E k \in 1 .. 3 : SumSeq(uavg.batch[k]) = 0
    /\ uavg.out[1].pairs[1] = <<"3.0", 10>>

\* the mean lines of an output
MeanLines(out) == {k \in 1 .. Len(out) : out[k].kind = "mean"}

\* C33: with mean_expected = M >= 1, after N well-formed data lines of the
\* input (lines with the tokens of the inferred number of pairs and a
\* number as every value) exactly floor(N / M) mean lines are emitted, one
\* right after every M-th such line.  The counters are reset at every
\* emission: after every processed line 0 <= data_valid <= data_read < M
\* and data_read is N mod M; the sums are zero when data_valid is 0.  The
\* lines behind the last emission give no line at the end of the input.
C33_OneMeanLinePerBatch ==
    uavg # << >> /\ uavg.pc \in {"loop", "done"} =>
       /\ uavg.mean_expected >= 1
       /\ Cardinality(MeanLines(uavg.out)) = uavg.n_data \div uavg.mean_expected
       /\ uavg.data_read = uavg.n_data % uavg.mean_expected
       /\ 0 <= uavg.data_valid
       /\ uavg.data_valid <= uavg.data_read
       /\ uavg.data_read < uavg.mean_expected
       /\ uavg.data_valid = 0 => \A i \in 1 .. uavg.num_pairs : uavg.sums[i] = 0

\* the input ended with five data lines read under mean_expected = 2: two
\* mean lines, and the fifth line gave none
C33_Witness ==
    /\ uavg.pc = "done"
    /\ uavg.mean_expected = 2
    /\ uavg.n_data = 5
    /\ Cardinality(MeanLines(uavg.out)) = 2
    /\ Len(uavg.batch) = 1

\* C39: on an output of decode_usb_tdc no temperature line (of the labels
\* MAX31726, LM75B, unknown I2C, error) is taken as the first valid line:
\* the inferred number of pairs is always the 6 pairs of the block lines,
\* and no block line is left out because of a temperature line.  (Refuted:
\* the line "-66.6666 # TMP unknown I2C" has five tokens and is taken as a
\* first valid line of two pairs.)
C39_TemperatureLineNeverFirst ==
    uavg # << >> /\ uavg.pc \in {"loop", "done"} => uavg.num_pairs = 6

(***************************************************************************)
(* Part 5: process_raw_cal and load_calibration_file, data_processing.py   *)
(* lines 40-135                                                            *)
(*                                                                         *)
(* The widths, centers and sums of the table are ps; the model holds them  *)
(* as they are written, "%10.5f", as counts of 0.00001 ps.  The code gets  *)
(* them from doubles, the model from the exact quotient                    *)
(* n * FT_UNIT / sum_entries = n * 5 * 10^9 / (17 * sum_entries) counts.   *)
(***************************************************************************)
\* longest calibration dump that is read, in lines
MaxCalLines == 3

\* the lines of a dump: int(line.strip(), 0) gives the value of a line, or
\* fails (ok = FALSE).  The values: bin 0 with 5 entries; bin 0 with 7
\* entries and bits 18, 19 set; bin 1 with 3 entries; -1 (all bits set:
\* bin 511 with 262143 entries); bin 0 with no entry and bits 19, 30 set
CalLines ==
    { [ok |-> TRUE, value |-> 5],
      [ok |-> TRUE, value |-> 7 + 2^18 + 2^19],
      [ok |-> TRUE, value |-> 2^20 + 3],
      [ok |-> TRUE, value |-> 0 - 1],
      [ok |-> TRUE, value |-> 2^30 + 2^19],
      [ok |-> FALSE, value |-> 0] }

\* entries[bin_num] += entry
fill_entry_adding(entries, value) ==
    LET bin_num == (value % (2^29)) \div (2^20)
        entry == value % (2^18)
    IN  [entries EXCEPT ![bin_num] = @ + entry]

\* lines 60-66: bin_num = (value & 0x1FF00000) >> 20,
\* entry = value & 0x0003FFFF, entries[bin_num] = entry
fill_entry(entries, value) ==
    LET bin_num == (value % (2^29)) \div (2^20)
        entry == value % (2^18)
    IN  [entries EXCEPT ![bin_num] = entry]

\* the state of the calls
\*   pc       "read" (in the loop of line 59), "written" (process_raw_cal
\*            returned), "loaded" (load_calibration_file returned the
\*            table), "raised"
\*   entries  the histogram
\*   file     the table file: sum_entries, bin_lsb as a fraction of ps, and
\*            the data rows; a row has its five numbers and the flag that
\*            one of its fields is a text instead of a number
\*   edited   whether the table file was changed behind process_raw_cal
\*   lines    history: the lines read
CalStart ==
    [pc |-> "read", raised |-> "none",
     entries |-> [i \in 0 .. BLOCK_RAM_SIZE - 1 |-> 0],
     file |-> << >>, edited |-> FALSE, lines |-> << >>]

\* x * 10^k / d on the grid of the integers: the nearest one, the even one
\* of two equally near.  LongDiv gives n more decimal digits of a quotient
\* q with the remainder r
RoundDiv(x, d, k) ==
    LET RECURSIVE LongDiv(_, _, _)
        LongDiv(q, r, n) ==
           IF n = 0 THEN [q |-> q, r |-> r]
           ELSE LongDiv(q * 10 + (r * 10) \div d, (r * 10) % d, n - 1)
        z == LongDiv(x \div d, x % d, k)
    IN  IF 2 * z.r > d THEN z.q + 1
        ELSE IF 2 * z.r = d THEN z.q + (z.q % 2)
        ELSE z.q

RECURSIVE SumBins(_, _)
\* the sum of the entries of a set of bins
SumBins(entries, bins) ==
    IF bins = {} THEN 0
    ELSE LET i == CHOOSE j \in bins : TRUE
         IN  entries[i] + SumBins(entries, bins \ {i})

\* a table whose BIN_SUM is the width of the bin
cal_table_nosum(entries) ==
    LET filled == {i \in DOMAIN entries : entries[i] # 0}
        \* the entries of the bins before bin i
        upto[i \in 0 .. BLOCK_RAM_SIZE] ==
           SumBins(entries, {j \in filled : j < i})
        sum_entries == upto[BLOCK_RAM_SIZE]
        \* n * bin_lsb / m, in counts of 0.00001 ps
        ps(n, m) == IF sum_entries = 0 THEN 0
                    ELSE RoundDiv(n * 5, m * TicksPerNs * sum_entries, 9)
        row(i) == [bin |-> i,
                   entries |-> entries[i],
                   bin_width |-> ps(entries[i], 1),
                   bin_center |-> ps(2 * upto[i + 1] - entries[i], 2),
                   bin_sum |-> ps(entries[i], 1),
                   text |-> FALSE]
    IN  [sum_entries |-> sum_entries,
         bin_lsb |-> IF sum_entries = 0 THEN <<0, 1>>
                     ELSE <<1000000, TDC_FREQ * sum_entries>>,
         rows |-> [k \in 1 .. BLOCK_RAM_SIZE |-> row(k - 1)]]

\* lines 69-89: the table file of the histogram
cal_table(entries) ==
    LET filled == {i \in DOMAIN entries : entries[i] # 0}
        \* the entries of the bins before bin i
        upto[i \in 0 .. BLOCK_RAM_SIZE] ==
           SumBins(entries, {j \in filled : j < i})
        sum_entries == upto[BLOCK_RAM_SIZE]
        \* n * bin_lsb / m, in counts of 0.00001 ps
        ps(n, m) == IF sum_entries = 0 THEN 0
                    ELSE RoundDiv(n * 5, m * TicksPerNs * sum_entries, 9)
        row(i) == [bin |-> i,
                   entries |-> entries[i],
                   bin_width |-> ps(entries[i], 1),
                   bin_center |-> ps(2 * upto[i + 1] - entries[i], 2),
                   bin_sum |-> ps(upto[i + 1], 1),
                   text |-> FALSE]
    IN  [sum_entries |-> sum_entries,
         bin_lsb |-> IF sum_entries = 0 THEN <<0, 1>>
                     ELSE <<1000000, TDC_FREQ * sum_entries>>,
         rows |-> [k \in 1 .. BLOCK_RAM_SIZE |-> row(k - 1)]]

\* lines 115-135: pd.read_csv reads every row, and a field that is a text
\* makes its column a column of objects, which is no error; the test of
\* line 124 is on the number of rows
load_calibration_file(file) ==
    IF Len(file.rows) # BLOCK_RAM_SIZE THEN "ValueError" ELSE "none"

InitCal ==
    /\ cal = CalStart
    /\ cap = << >>
    /\ avg = << >>
    /\ uavg = << >>
    /\ DecodersIdle

\* lines 59-66: one line of the dump
CalReadLine ==
    /\ cal.pc = "read"
    /\ Len(cal.lines) < MaxCalLines
    /\ \E line \in CalLines :
          cal' = IF line.ok
                 THEN [cal EXCEPT !.entries = fill_entry(@, line.value),
                                  !.lines = Append(@, line)]
                 ELSE [cal EXCEPT !.pc = "raised", !.raised = "ValueError",
                                  !.lines = Append(@, line)]
    /\ UNCHANGED <<dlm_vars, usb_vars, avg, uavg, cap>>

\* lines 69-89: the dump ends, the table is written
CalWrite ==
    /\ cal.pc = "read"
    /\ cal' = [cal EXCEPT !.pc = "written", !.file = cal_table(cal.entries)]
    /\ UNCHANGED <<dlm_vars, usb_vars, avg, uavg, cap>>

\* the table file is changed in one place between the two calls: the last
\* row is removed, a row is added, or a field of a row is replaced by a text
CalEdit ==
    /\ cal.pc = "written"
    /\ ~cal.edited
    /\ \E f \in { [cal.file EXCEPT !.rows = SubSeq(@, 1, Len(@) - 1)],
                  [cal.file EXCEPT !.rows = Append(@, @[Len(@)])],
                  [cal.file EXCEPT !.rows[2].text = TRUE] } :
          cal' = [cal EXCEPT !.file = f, !.edited = TRUE]
    /\ UNCHANGED <<dlm_vars, usb_vars, avg, uavg, cap>>

\* lines 115-135, called by unpack_dlm_data at line 187
CalLoad ==
    /\ cal.pc = "written"
    /\ cal' = IF load_calibration_file(cal.file) = "none"
              THEN [cal EXCEPT !.pc = "loaded"]
              ELSE [cal EXCEPT !.pc = "raised",
                               !.raised = load_calibration_file(cal.file)]
    /\ UNCHANGED <<dlm_vars, usb_vars, avg, uavg, cap>>

NextCal ==
    \/ CalReadLine
    \/ CalWrite
    \/ CalEdit
    \/ CalLoad

SpecCal == InitCal /\ [][NextCal]_vars

(***************************************************************************)
(* Properties of process_raw_cal and load_calibration_file                 *)
(***************************************************************************)
\* the table file as process_raw_cal left it
CalWritten == cal.pc \in {"written", "loaded"} /\ ~cal.edited

\* C28: process_raw_cal fails on no dump whose lines are all integers, the
\* empty dump and the dump without entries included: it fails only at a
\* line that is no integer.  The table it writes has exactly 512 data rows,
\* the rows of the bins 0, 1, ..., 511 in this order, and BIN_SUM never
\* decreases from a row to the next one.  When sum_entries is 0, bin_lsb
\* is 0 and BIN_WIDTH, BIN_CENTER and BIN_SUM are 0 in every row.
C28_TableAlways512Rows ==
    /\ cal.pc = "raised" /\ cal.file = << >>
       => ~cal.lines[Len(cal.lines)].ok
    /\ cal.pc = "read" => \A k \in 1 .. Len(cal.lines) : cal.lines[k].ok
    /\ CalWritten =>
          LET rows == cal.file.rows
          IN  /\ Len(rows) = 512
              /\ \A k \in 1 .. Len(rows) : rows[k].bin = k - 1
              /\ \A k \in 1 .. Len(rows) - 1 :
                    rows[k].bin_sum <= rows[k + 1].bin_sum
              /\ cal.file.sum_entries = 0 =>
                    /\ cal.file.bin_lsb[1] = 0
                    /\ \A k \in 1 .. Len(rows) :
                          /\ rows[k].bin_width = 0
                          /\ rows[k].bin_center = 0
                          /\ rows[k].bin_sum = 0

\* a table of a dump of three lines with entries in the bins 0, 1 and 511
C28_Witness ==
    /\ CalWritten
    /\ Len(cal.lines) = 3
    /\ cal.file.rows[1].bin_sum > 0
    /\ cal.file.rows[1].bin_sum < cal.file.rows[2].bin_sum
    /\ cal.file.rows[2].bin_sum = cal.file.rows[511].bin_sum
    /\ cal.file.rows[511].bin_sum < cal.file.rows[512].bin_sum

\* the bits lo .. hi of a value
BitField(value, lo, hi) == (value \div (2^lo)) % (2^(hi - lo + 1))

\* the lines read of the dump whose bits 20 .. 28 are i
LinesOfBin(i) ==
    {k \in 1 .. Len(cal.lines) :
        cal.lines[k].ok /\ BitField(cal.lines[k].value, 20, 28) = i}

\* the entry of bin i by the dump: the bits 0 .. 17 of the last line of the
\* bin, 0 without such a line
LastCount(i) ==
    IF LinesOfBin(i) = {} THEN 0
    ELSE LET last == CHOOSE k \in LinesOfBin(i) :
                        \A j \in LinesOfBin(i) : j <= k
         IN  BitField(cal.lines[last].value, 0, 17)

\* C29: entries[i] of the table is the 18-bit count (bits 0 .. 17) of the
\* last line of the dump whose bits 20 .. 28 are i, and 0 when there is no
\* such line: a later line of a bin replaces the earlier one and is never
\* added to it.  sum_entries is the sum of these 512 values.  The bits 18,
\* 19 and the bits above 28 of a line do not reach the table.
C29_LastLineOfABinCounts ==
    /\ cal.pc = "read" =>
          \A i \in 0 .. 511 : cal.entries[i] = LastCount(i)
    /\ CalWritten =>
          /\ \A i \in 0 .. 511 : cal.file.rows[i + 1].entries = LastCount(i)
          /\ cal.file.sum_entries = SumBins([i \in 0 .. 511 |-> LastCount(i)],
                                            {i \in 0 .. 511 : LinesOfBin(i) # {}})

\* a table of a dump with two lines of bin 0, of 5 and then of 7 entries,
\* the second one with the bits 18 and 19 set
C29_Witness ==
    /\ CalWritten
    /\ Len(cal.lines) = 2
    /\ cal.lines[1].value = 5
    /\ cal.lines[2].value = 7 + 2^18 + 2^19
    /\ cal.file.rows[1].entries = 7
    /\ cal.file.sum_entries = 7

\* C30: load_calibration_file returns a table only when the table file
\* holds exactly 512 data rows and every field of every row is a number; it
\* raises ValueError for every other file, so that no decode starts with
\* such a table.  (Refuted: a file of 512 rows with a text in a field is
\* returned as a table.)
C30_LoadedTableIsNumeric ==
    /\ cal.pc = "loaded" =>
          /\ Len(cal.file.rows) = 512
          /\ \A k \in 1 .. Len(cal.file.rows) : ~cal.file.rows[k].text
    /\ cal.pc = "raised" /\ cal.file # << >> => cal.raised = "ValueError"

(***************************************************************************)
(* Part 6: the capture threads (blackcat/utils.py) and the calls of        *)
(* blackcat/core.py that start and stop them                               *)
(*                                                                         *)
(* One thread, the caller, makes the calls of BlackCat and of a USBDevice  *)
(* one after the other; every UDPListener and the USBReader run a thread  *)
(* of their own.  Time is not a number here: a recvfrom that times out     *)
(* is a step back to the test of the loop, and the two seconds of          *)
(* join(timeout=2) can pass only while the thread it waits for is in a     *)
(* call that blocks as long, which is recvfrom with its timeout of 2.0 s.  *)
(* Sockets, files and scripts do not fail.                                 *)
(***************************************************************************)
\* calls made by the caller
MaxCalls == 3
\* datagrams a listener receives
MaxPackets == 1

\* core.py line 214: config["run"]["ports"], in the order of the file
Ports == {1, 2}

\* UDPListener.__init__: the two events, no thread; out_file is the state of
\* the file object of line 171, packets the number of writes of line 176.
\* thread: "none"  self.thread is None
\*         "bind"  started, before ready_event.set() (lines 155-168)
\*         "open"  before the with statement (line 171)
\*         "loop"  at the test of the while statement (line 172)
\*         "recv"  in recvfrom (line 175)
\*         "dead"  listen has returned
NoListener ==
    [stop_event |-> FALSE, ready_event |-> FALSE, thread |-> "none",
     out_file |-> "absent", packets |-> 0]

\* pc: "idle"      between two calls
\*     "start"     start_udp_listeners, at the for statement (line 218)
\*     "wait"      in listener.ready_event.wait() (line 234)
\*     "script"    run_link_delay_measurement, before run_shell_script
\*     "stop"      stop_measurement, at the for statement (line 298)
\*     "join"      UDPListener.stop, in thread.join (line 209)
\*     "usb_join"  USBReader.stop, in thread.join (line 320)
\* listeners: the keys of self.listeners; None and {} are both the empty set,
\*     the code only tests the truth value.
\* obj: the UDPListener created for a port.
\* usb_reader: TRUE when USBDevice.usb_reader holds a reader; reader is the
\*     USBReader created last, with process the state of the cat child:
\*     "none", "running", "terminated" (signalled, not waited for), "exited".
CapStart ==
    [pc |-> "idle", calls |-> 0, scripts |-> 0,
     listeners |-> {}, obj |-> [p \in Ports |-> NoListener],
     todo |-> {}, port |-> 0,
     usb_reader |-> FALSE,
     reader |-> [stop_event |-> FALSE, thread |-> "none",
                 out_file |-> "absent", process |-> "none"]]

InitCapture ==
    /\ cap = CapStart
    /\ avg = << >>
    /\ uavg = << >>
    /\ cal = << >>
    /\ DecodersIdle

\* core.py lines 251-257 and 217
RunLinkDelayMeasurement ==
    /\ cap # << >>
    /\ cap.pc = "idle"
    /\ cap.calls < MaxCalls
    /\ cap' = IF cap.listeners = {}
              THEN [cap EXCEPT !.calls = @ + 1, !.pc = "start",
                               !.listeners = {}, !.todo = Ports]
              ELSE [cap EXCEPT !.calls = @ + 1, !.pc = "script"]
    /\ UNCHANGED <<dlm_vars, usb_vars, avg, uavg, cal>>

\* core.py lines 218-232 and utils.py lines 151, 191-192: the next port of
\* the loop, a new listener and its thread
StartUdpListeners ==
    /\ cap # << >>
    /\ cap.pc = "start"
    /\ cap' = IF cap.todo = {}
              THEN [cap EXCEPT !.pc = "script"]
              ELSE LET port == CHOOSE p \in cap.todo :
                                   \A q \in cap.todo : p <= q
                   IN  [cap EXCEPT !.pc = "wait", !.port = port,
                                   !.obj[port] =
                                       [NoListener EXCEPT !.thread = "bind"]]
    /\ UNCHANGED <<dlm_vars, usb_vars, avg, uavg, cal>>

\* core.py lines 234-237
ReadyEventWait ==
    /\ cap # << >>
    /\ cap.pc = "wait"
    /\ cap.obj[cap.port].ready_event
    /\ cap' = [cap EXCEPT !.pc = "start",
                          !.listeners = @ \cup {cap.port},
                          !.todo = @ \ {cap.port}]
    /\ UNCHANGED <<dlm_vars, usb_vars, avg, uavg, cal>>

\* core.py lines 266-275: the start script runs
RunShellScript ==
    /\ cap # << >>
    /\ cap.pc = "script"
    /\ cap' = [cap EXCEPT !.pc = "idle", !.scripts = @ + 1]
    /\ UNCHANGED <<dlm_vars, usb_vars, avg, uavg, cal>>

\* core.py lines 284-298: the stop script runs, then the loop over
\* self.listeners.values(); self.listeners is left as it is
StopMeasurement ==
    /\ cap # << >>
    /\ cap.pc = "idle"
    /\ cap.calls < MaxCalls
    /\ cap' = IF cap.listeners # {}
              THEN [cap EXCEPT !.calls = @ + 1, !.pc = "stop",
                               !.todo = cap.listeners]
              ELSE [cap EXCEPT !.calls = @ + 1]
    /\ UNCHANGED <<dlm_vars, usb_vars, avg, uavg, cal>>

\* core.py lines 298-300 and utils.py lines 199-208
ListenerStop ==
    /\ cap # << >>
    /\ cap.pc = "stop"
    /\ cap' = IF cap.todo = {}
              THEN [cap EXCEPT !.pc = "idle"]
              ELSE LET port == CHOOSE p \in cap.todo :
                                   \A q \in cap.todo : p <= q
                   IN  [cap EXCEPT !.port = port,
                                   !.obj[port].stop_event = TRUE,
                                   !.pc = IF cap.obj[port].thread # "none"
                                          THEN "join" ELSE "stop",
                                   !.todo = IF cap.obj[port].thread # "none"
                                            THEN @ ELSE @ \ {port}]
    /\ UNCHANGED <<dlm_vars, usb_vars, avg, uavg, cal>>

\* utils.py line 209: join returns when the thread has ended or when the
\* timeout has passed, the thread being in recvfrom (lines 160, 175); its
\* result is not looked at
ListenerJoin ==
    /\ cap # << >>
    /\ cap.pc = "join"
    /\ \E timeout \in BOOLEAN :
          /\ IF timeout THEN cap.obj[cap.port].thread = "recv"
                        ELSE cap.obj[cap.port].thread = "dead"
          /\ cap' = [cap EXCEPT !.pc = "stop", !.todo = @ \ {cap.port}]
    /\ UNCHANGED <<dlm_vars, usb_vars, avg, uavg, cal>>

\* utils.py lines 153-189: one step of the thread of the listener of port p
listen(p) ==
    /\ cap # << >>
    /\ LET l == cap.obj[p]
       IN  \/ /\ l.thread = "bind"
              /\ cap' = [cap EXCEPT !.obj[p].ready_event = TRUE,
                                    !.obj[p].thread = "open"]
           \/ /\ l.thread = "open"
              /\ cap' = [cap EXCEPT !.obj[p].out_file = "open",
                                    !.obj[p].thread = "loop"]
           \/ /\ l.thread = "loop"
              /\ cap' = IF l.stop_event
                        THEN [cap EXCEPT !.obj[p].out_file = "closed",
                                         !.obj[p].thread = "dead"]
                        ELSE [cap EXCEPT !.obj[p].thread = "recv"]
           \/ /\ l.thread = "recv"
              /\ \E data \in BOOLEAN :
                    /\ data => l.packets < MaxPackets
                    /\ cap' = [cap EXCEPT !.obj[p].thread = "loop",
                                          !.obj[p].packets =
                                              IF data THEN @ + 1 ELSE @]
    /\ UNCHANGED <<dlm_vars, usb_vars, avg, uavg, cal>>

\* core.py lines 497-517 and utils.py lines 261-262, 300-301: a new reader
\* and its thread; the caller starts a reading when none is held
StartUsbReading ==
    /\ cap # << >>
    /\ cap.pc = "idle"
    /\ cap.calls < MaxCalls
    /\ ~cap.usb_reader
    /\ cap' = [cap EXCEPT !.calls = @ + 1, !.usb_reader = TRUE,
                          !.reader = [CapStart.reader EXCEPT
                                          !.thread = "open"]]
    /\ UNCHANGED <<dlm_vars, usb_vars, avg, uavg, cal>>

\* core.py lines 519-523 and utils.py lines 311-315
StopUsbReading ==
    /\ cap # << >>
    /\ cap.pc = "idle"
    /\ cap.calls < MaxCalls
    /\ cap' = IF cap.usb_reader
              THEN [cap EXCEPT !.calls = @ + 1, !.pc = "usb_join",
                               !.reader.stop_event = TRUE]
              ELSE [cap EXCEPT !.calls = @ + 1]
    /\ UNCHANGED <<dlm_vars, usb_vars, avg, uavg, cal>>

\* utils.py lines 320-321 and core.py line 524: read_usb has no call that
\* blocks, the thread ends before the timeout
ReaderJoin ==
    /\ cap # << >>
    /\ cap.pc = "usb_join"
    /\ cap.reader.thread = "dead"
    /\ cap' = [cap EXCEPT !.pc = "idle", !.usb_reader = FALSE]
    /\ UNCHANGED <<dlm_vars, usb_vars, avg, uavg, cal>>

\* utils.py lines 271-297: one step of the thread of the reader; "open" is
\* before the with statement, "poll" at the test of the while statement.
\* terminate() signals the child and does not wait for it.
read_usb ==
    /\ cap # << >>
    /\ \/ /\ cap.reader.thread = "open"
          /\ cap' = [cap EXCEPT !.reader.out_file = "open",
                                !.reader.process = "running",
                                !.reader.thread = "poll"]
       \/ /\ cap.reader.thread = "poll"
          /\ cap.reader.stop_event
          /\ cap' = [cap EXCEPT !.reader.process = "terminated",
                                !.reader.out_file = "closed",
                                !.reader.thread = "dead"]
       \/ /\ cap.reader.thread = "poll"
          /\ ~cap.reader.stop_event
          /\ cap' = [cap EXCEPT !.reader.process = "exited",
                                !.reader.out_file = "closed",
                                !.reader.thread = "dead"]
    /\ UNCHANGED <<dlm_vars, usb_vars, avg, uavg, cal>>

NextCapture ==
    \/ RunLinkDelayMeasurement
    \/ StartUdpListeners
    \/ ReadyEventWait
    \/ RunShellScript
    \/ StopMeasurement
    \/ ListenerStop
    \/ ListenerJoin
    \/ \E p \in Ports : listen(p)
    \/ StartUsbReading
    \/ StopUsbReading
    \/ ReaderJoin
    \/ read_usb

SpecCapture == InitCapture /\ [][NextCapture]_vars

(***************************************************************************)
(* Properties of the capture threads                                       *)
(***************************************************************************)
\* a thread that has been started and has not returned
Alive == {"bind", "open", "loop", "recv", "poll"}

\* C40: whenever run_link_delay_measurement starts the measurement script,
\* every configured port has a listener in self.listeners whose thread is
\* alive and whose stop_event is not set.
C40_ScriptStartsWithRunningListeners ==
    cap # << >> /\ cap.pc = "script" =>
        \A p \in Ports :
            /\ p \in cap.listeners
            /\ cap.obj[p].thread \in Alive
            /\ ~cap.obj[p].stop_event

\* C31: when UDPListener.stop or USBReader.stop returns, the thread of the
\* capture has ended and its output file is closed.
C31_StopReturnsAfterCaptureEnded ==
    [][/\ (cap # << >> /\ cap.pc = "join" /\ cap'.pc # "join") =>
              /\ cap'.obj[cap.port].thread = "dead"
              /\ cap'.obj[cap.port].out_file = "closed"
       /\ (cap # << >> /\ cap.pc = "usb_join" /\ cap'.pc # "usb_join") =>
              /\ cap'.reader.thread = "dead"
              /\ cap'.reader.out_file = "closed"]_vars

=============================================================================
